---- MODULE Spec2Model ----
(***************************************************************************)
(* Houjicha language front-end: the indentation-sensitive lexer            *)
(* (src/unnamed/part_001) and the recursive-descent parser with its        *)
(* constants map (src/unnamed/part_000).                                   *)
(*                                                                         *)
(* A source string is a sequence of characters; a character is a one-      *)
(* character string, except the full-width forms, which are written by     *)
(* their code point ("U+FF03").  JavaScript strings are sequences of       *)
(* characters here, so that concatenation and trim() are computed.         *)
(* `undefined` is the empty sequence None and a present optional value x   *)
(* is the one-element sequence Some(x).                                    *)
(***************************************************************************)
EXTENDS Integers, Sequences, FiniteSets, TLC

VARIABLES input, source, lexer, pc, parser, docChildren, result, calls,
          watcher

vars ==
  <<input, source, lexer, pc, parser, docChildren, result, calls, watcher>>

None == <<>>
Some(x) == <<x>>

(***************************************************************************)
(* Characters                                                              *)
(***************************************************************************)
SP == " "
TAB == "\t"
NL == "\n"
CR == "\r"
FF == "\f"
IDSP == "U+3000"
FwHash == "U+FF03"
FwColon == "U+FF1A"
FwQuestion == "U+FF1F"
FwPercent == "U+FF05"
FwAt == "U+FF20"
FwSemicolon == "U+FF1B"
FwAmp == "U+FF06"
FwBar == "U+FF5C"
FwPlus == "U+FF0B"
FwExclaim == "U+FF01"
FwLParen == "U+FF08"
FwRParen == "U+FF09"
FwAsterisk == "U+FF0A"
FwDollar == "U+FF04"
LBracketJp == "U+300C"
RBracketJp == "U+300D"
NUL == "U+0000"

\* String.prototype.trim(): the white space and line terminator characters
WhiteSpace == {SP, TAB, NL, CR, FF, IDSP}

RECURSIVE TrimLeft(_)
TrimLeft(s) ==
  IF s # <<>> /\ Head(s) \in WhiteSpace THEN TrimLeft(Tail(s)) ELSE s

RECURSIVE TrimRight(_)
TrimRight(s) ==
  IF s # <<>> /\ s[Len(s)] \in WhiteSpace
  THEN TrimRight(SubSeq(s, 1, Len(s) - 1))
  ELSE s

Trim(s) == TrimRight(TrimLeft(s))

(***************************************************************************)
(* Lexer                                                                   *)
(***************************************************************************)
Lexer(src) ==
  [ pos         |-> 0,
    line        |-> 0,
    column      |-> 0,
    tokens      |-> <<>>,
    errors      |-> <<>>,
    indentStack |-> <<0>>,
    atLineStart |-> TRUE ]

lexIsAtEnd(src, L) == L.pos >= Len(src)

lexPeek(src, L, offset) ==
  LET idx == L.pos + offset
  IN  IF idx < Len(src) THEN src[idx + 1] ELSE NUL

\* the character returned is lexPeek(src, L, 0), read before the call
lexAdvance(src, L) ==
  IF src[L.pos + 1] = NL
  THEN [L EXCEPT !.pos = @ + 1, !.line = @ + 1, !.column = 0,
                 !.atLineStart = TRUE]
  ELSE [L EXCEPT !.pos = @ + 1, !.column = @ + 1]

createPosition(L) == [line |-> L.line, column |-> L.column, offset |-> L.pos]

addToken(L, type, value, startPos) ==
  [L EXCEPT !.tokens = Append(@,
     [ type  |-> type,
       value |-> value,
       range |-> [start |-> startPos, end |-> createPosition(L)] ])]

\* `予期しない文字: ${char}`
MsgUnexpectedChar(char) == <<"unexpected character", <<char>>>>

lexAddError(L, message, startPos) ==
  [L EXCEPT !.errors = Append(@,
     [ message |-> message,
       range   |-> [start |-> startPos, end |-> createPosition(L)] ])]

isSpecialChar(char) ==
  char \in { "#", FwHash, "^", ":", FwColon, "<", ">", "?", FwQuestion,
             "%", FwPercent, "@", FwAt, "~", "=", "&", FwAmp, "|", FwBar,
             "+", FwPlus, "!", FwExclaim, "(", FwLParen, ")", FwRParen,
             LBracketJp, RBracketJp, "$", FwDollar, "/", "\\", ";",
             FwSemicolon, "*", FwAsterisk, SP, TAB, IDSP }

\* the loops of scanComment and scanText: [L, text] after reading on while
\* the next character is not in `stops`
RECURSIVE lexReadWhile(_, _, _, _)
lexReadWhile(src, L, text, stopsAtSpecial) ==
  IF lexIsAtEnd(src, L) THEN [L |-> L, text |-> text]
  ELSE LET char == lexPeek(src, L, 0)
       IN  IF (stopsAtSpecial /\ (isSpecialChar(char) \/ char = NL \/ char = CR))
              \/ (~stopsAtSpecial /\ char = NL)
           THEN [L |-> L, text |-> text]
           ELSE lexReadWhile(src, lexAdvance(src, L), Append(text, char),
                             stopsAtSpecial)

scanComment(src, L, startPos) ==
  LET r == lexReadWhile(src, L, <<>>, FALSE)
  IN  addToken(r.L, "COMMENT", Trim(r.text), startPos)

scanText(src, L, startPos, initial) ==
  LET r == lexReadWhile(src, L, initial, TRUE)
      trimmed == Trim(r.text)
  IN  IF trimmed = <<"a", "s">> THEN addToken(r.L, "AS", trimmed, startPos)
      ELSE IF Len(trimmed) > 0 THEN addToken(r.L, "TEXT", trimmed, startPos)
      ELSE r.L

\* the counting loop of handleIndentation with a tab counted as one space
RECURSIVE countIndentNarrowTab(_, _, _)
countIndentNarrowTab(src, L, indent) ==
  IF lexIsAtEnd(src, L) THEN [L |-> L, indent |-> indent]
  ELSE LET char == lexPeek(src, L, 0)
       IN  IF char = SP \/ char = TAB
           THEN countIndentNarrowTab(src, lexAdvance(src, L), indent + 1)
           ELSE IF char = IDSP
                THEN countIndentNarrowTab(src, lexAdvance(src, L), indent + 2)
           ELSE [L |-> L, indent |-> indent]

\* the loop of handleIndentation: [L, indent] after the leading indentation
RECURSIVE countIndent(_, _, _)
countIndent(src, L, indent) ==
  IF lexIsAtEnd(src, L) THEN [L |-> L, indent |-> indent]
  ELSE LET char == lexPeek(src, L, 0)
       IN  IF char = SP THEN countIndent(src, lexAdvance(src, L), indent + 1)
           ELSE IF char = TAB
                THEN countIndent(src, lexAdvance(src, L), indent + 4)
           ELSE IF char = IDSP
                THEN countIndent(src, lexAdvance(src, L), indent + 2)
           ELSE [L |-> L, indent |-> indent]

\* a single pop of the indent stack for a smaller width
popDedentsOnce(L, indent, startPos) ==
  IF Len(L.indentStack) > 1 /\ L.indentStack[Len(L.indentStack)] > indent
  THEN addToken([L EXCEPT !.indentStack = SubSeq(@, 1, Len(@) - 1)],
                "DEDENT", <<>>, startPos)
  ELSE L

\* the loop that pops the indent stack, without its addToken
RECURSIVE popWithoutDedents(_, _, _)
popWithoutDedents(L, indent, startPos) ==
  IF Len(L.indentStack) > 1 /\ L.indentStack[Len(L.indentStack)] > indent
  THEN popWithoutDedents([L EXCEPT !.indentStack = SubSeq(@, 1, Len(@) - 1)],
                         indent, startPos)
  ELSE L

\* the loop that pops the indent stack, one DEDENT per pop
RECURSIVE popDedents(_, _, _)
popDedents(L, indent, startPos) ==
  IF Len(L.indentStack) > 1 /\ L.indentStack[Len(L.indentStack)] > indent
  THEN popDedents(
         addToken([L EXCEPT !.indentStack = SubSeq(@, 1, Len(@) - 1)],
                  "DEDENT", <<>>, startPos),
         indent, startPos)
  ELSE L

\* handleIndentation with a push for every width that differs from the top
handleIndentationPushing(src, L) ==
  LET startPos == createPosition(L)
      r  == countIndent(src, L, 0)
      L1 == [r.L EXCEPT !.atLineStart = FALSE]
      indent == r.indent
      currentIndent == L1.indentStack[Len(L1.indentStack)]
  IN  IF lexPeek(src, L1, 0) = NL \/ lexPeek(src, L1, 0) = CR THEN L1
      ELSE IF indent # currentIndent
           THEN addToken([L1 EXCEPT !.indentStack = Append(@, indent)],
                         "INDENT", <<>>, startPos)
      ELSE L1

handleIndentation(src, L) ==
  LET startPos == createPosition(L)
      r  == countIndent(src, L, 0)
      L1 == [r.L EXCEPT !.atLineStart = FALSE]
      indent == r.indent
      currentIndent == L1.indentStack[Len(L1.indentStack)]
  IN  IF lexPeek(src, L1, 0) = NL \/ lexPeek(src, L1, 0) = CR THEN L1
      ELSE IF indent > currentIndent
           THEN addToken([L1 EXCEPT !.indentStack = Append(@, indent)],
                         "INDENT", <<>>, startPos)
      ELSE IF indent < currentIndent
           THEN popDedents(L1, indent, startPos)
      ELSE L1

\* one- or two-character operator: `second` after `char` gives `type2`
scanPair(src, L1, startPos, char, second, type2) ==
  IF lexPeek(src, L1, 0) = second
  THEN addToken(lexAdvance(src, L1), type2, <<char, second>>, startPos)
  ELSE scanText(src, L1, startPos, <<char>>)

scanToken(src, L) ==
  IF L.atLineStart THEN handleIndentation(src, L)
  ELSE
    LET startPos == createPosition(L)
        char == src[L.pos + 1]
        L1 == lexAdvance(src, L)
    IN  CASE char \in {SP, TAB, IDSP} -> L1
          [] char = NL -> addToken(L1, "NEWLINE", <<NL>>, startPos)
          [] char = CR ->
               addToken(IF lexPeek(src, L1, 0) = NL
                        THEN lexAdvance(src, L1) ELSE L1,
                        "NEWLINE", <<NL>>, startPos)
          [] char = "/" ->
               IF lexPeek(src, L1, 0) = "/"
               THEN scanComment(src, lexAdvance(src, L1), startPos)
               ELSE lexAddError(L1, MsgUnexpectedChar(char), startPos)
          [] char \in {"#", FwHash} -> addToken(L1, "HASH", <<char>>, startPos)
          [] char = "^" -> addToken(L1, "CARET", <<char>>, startPos)
          [] char \in {":", FwColon} ->
               IF lexPeek(src, L1, 0) = char
               THEN addToken(lexAdvance(src, L1), "DOUBLE_COLON",
                             <<char, char>>, startPos)
               ELSE addToken(L1, "COLON", <<char>>, startPos)
          [] char = "<" -> scanPair(src, L1, startPos, char, "=", "ARROW_LEFT")
          [] char = ">" -> scanPair(src, L1, startPos, char, ">", "ARROW_RIGHT")
          [] char \in {"?", FwQuestion} ->
               addToken(L1, "QUESTION", <<char>>, startPos)
          [] char \in {"%", FwPercent} ->
               addToken(L1, "PERCENT", <<char>>, startPos)
          [] char \in {"@", FwAt} -> addToken(L1, "AT", <<char>>, startPos)
          [] char \in {";", FwSemicolon} ->
               addToken(L1, "SEMICOLON", <<char>>, startPos)
          [] char = "~" -> scanPair(src, L1, startPos, char, ">", "TILDE_ARROW")
          [] char = "=" -> scanPair(src, L1, startPos, char, ">", "IMPLIES")
          [] char \in {"&", FwAmp} -> addToken(L1, "AND", <<char>>, startPos)
          [] char \in {"|", FwBar} -> addToken(L1, "OR", <<char>>, startPos)
          [] char \in {"+", FwPlus} -> addToken(L1, "PLUS", <<char>>, startPos)
          [] char \in {"!", FwExclaim} ->
               addToken(L1, "EXCLAIM", <<char>>, startPos)
          [] char \in {"(", FwLParen} ->
               addToken(L1, "LPAREN", <<char>>, startPos)
          [] char \in {")", FwRParen} ->
               addToken(L1, "RPAREN", <<char>>, startPos)
          [] char = LBracketJp -> addToken(L1, "LBRACKET_JP", <<char>>, startPos)
          [] char = RBracketJp -> addToken(L1, "RBRACKET_JP", <<char>>, startPos)
          [] char \in {"*", FwAsterisk} ->
               addToken(L1, "ASTERISK", <<char>>, startPos)
          [] char \in {"$", FwDollar} ->
               addToken(L1, "DOLLAR", <<char>>, startPos)
          [] char = "\\" ->
               IF ~lexIsAtEnd(src, L1)
               THEN LET escaped == src[L1.pos + 1]
                        L2 == lexAdvance(src, L1)
                    IN  IF escaped = "&"
                        THEN addToken(L2, "AND", <<"\\", "&">>, startPos)
                        ELSE scanText(src, L2, startPos, <<char, escaped>>)
               ELSE L1
          [] OTHER -> scanText(src, L1, startPos, <<char>>)

\* the end of tokenize() leaving the open levels on the stack
tokenizeEndWithoutDedents(L) == addToken(L, "EOF", <<>>, createPosition(L))

\* the end of tokenize(): the remaining DEDENTs, then EOF
RECURSIVE popAllDedents(_)
popAllDedents(L) ==
  IF Len(L.indentStack) > 1
  THEN popAllDedents(
         addToken([L EXCEPT !.indentStack = SubSeq(@, 1, Len(@) - 1)],
                  "DEDENT", <<>>, createPosition(L)))
  ELSE L

tokenizeEnd(L) ==
  LET L1 == popAllDedents(L)
  IN  addToken(L1, "EOF", <<>>, createPosition(L1))

\* tokenize(source) as a function: the lexer when tokenize() returns
RECURSIVE tokenizeLoop(_, _)
tokenizeLoop(src, L) ==
  IF lexIsAtEnd(src, L) THEN tokenizeEnd(L)
  ELSE tokenizeLoop(src, scanToken(src, L))

tokenize(src) == tokenizeLoop(src, Lexer(src))

(***************************************************************************)
(* Parser: utilities                                                       *)
(*                                                                         *)
(* A parser is the record of the Parser object's fields (tokens, pos,      *)
(* errors, constants) and two history fields: `threw` records that the     *)
(* code read a property of `undefined` (a TypeError, which would abort     *)
(* parse), `stalled` that an iteration of a loop ended without moving the  *)
(* cursor and without leaving the loop (the loop would never end),         *)
(* `undefinedReturned` that advance() returned `undefined`.                *)
(***************************************************************************)
Parser(src) ==
  [ tokens    |-> <<>>,
    pos       |-> 0,
    errors    |-> <<>>,
    constants |-> <<>>,
    threw     |-> FALSE,
    stalled   |-> FALSE,
    undefinedReturned |-> FALSE ]

\* tokens[idx] of the code, `undefined` outside the array
tokenAt(p, idx) ==
  IF idx >= 0 /\ idx < Len(p.tokens) THEN Some(p.tokens[idx + 1]) ELSE None

UndefinedToken ==
  [ type  |-> "undefined",
    value |-> <<>>,
    range |-> [start |-> [line |-> 0, column |-> 0, offset |-> 0],
               end   |-> [line |-> 0, column |-> 0, offset |-> 0]] ]

\* reading .type, .value or .range of a token the code holds
deref(t) == IF t = None THEN UndefinedToken ELSE t[1]
throwIfUndefined(p, t) == IF t = None THEN [p EXCEPT !.threw = TRUE] ELSE p

peekAt(p, offset) ==
  LET idx == p.pos + offset
  IN  IF idx < Len(p.tokens) THEN tokenAt(p, idx)
      ELSE tokenAt(p, Len(p.tokens) - 1)

peek(p) == deref(peekAt(p, 0))
peek1(p) == deref(peekAt(p, 1))

isAtEnd(p) == peek(p).type = "EOF"

\* [p, token]: the parser after advance() and the token it returns, which is
\* `undefined` when pos is 0 at EOF
returned(p, token) ==
  [p |-> [p EXCEPT !.undefinedReturned = @ \/ token = None], token |-> token]

\* advance() without its test for the end: the cursor moves at EOF too
advanceUnguarded(p) ==
  returned([p EXCEPT !.pos = @ + 1], tokenAt(p, p.pos))

advance(p) ==
  IF ~isAtEnd(p) THEN returned([p EXCEPT !.pos = @ + 1], tokenAt(p, p.pos))
  ELSE returned(p, tokenAt(p, p.pos - 1))

\* advance() where the code reads a field of the token returned
advanceToken(p) ==
  LET a == advance(p)
  IN  [p |-> throwIfUndefined(a.p, a.token), token |-> deref(a.token)]

check(p, type) == peek(p).type = type

\* match(type): [p, matched]
match(p, type) ==
  IF check(p, type) THEN [p |-> advance(p).p, matched |-> TRUE]
  ELSE [p |-> p, matched |-> FALSE]

\* addError putting the error first in the list
addErrorFirst(p, message, range) ==
  [p EXCEPT !.errors = <<[message |-> message, range |-> range]>> \o @]

addError(p, message, range) ==
  [p EXCEPT !.errors = Append(@, [message |-> message, range |-> range])]

addErrorHere(p, message) == addError(p, message, peek(p).range)

\* expect(type, message) going past the token that it reports
expectSkipping(p, type, message) ==
  IF check(p, type) THEN advanceToken(p)
  ELSE LET p1 == advance(addErrorHere(p, message)).p
       IN  [p |-> p1, token |-> peek(p1)]

\* expect(type, message): [p, token]
expect(p, type, message) ==
  IF check(p, type) THEN advanceToken(p)
  ELSE LET p1 == addErrorHere(p, message)
       IN  [p |-> p1, token |-> peek(p1)]

\* the history field `stalled`: one loop iteration went from p0 to p1
\* without leaving the loop
iterated(p0, p1) ==
  IF p1.pos > p0.pos THEN p1 ELSE [p1 EXCEPT !.stalled = TRUE]

halted(p) == p.stalled \/ p.threw

RECURSIVE skipNewlines(_)
skipNewlines(p) ==
  LET m == match(p, "NEWLINE")
      p1 == iterated(p, m.p)
  IN  IF ~m.matched THEN m.p
      ELSE IF halted(p1) THEN p1
      ELSE skipNewlines(p1)

createRange(start, end) == [start |-> start, end |-> end]

\* `while (!isAtEnd() && !check(stop1) && ...) text += advance().value + ' '`
RECURSIVE scanUntil(_, _, _)
scanUntil(p, stops, text) ==
  IF isAtEnd(p) \/ peek(p).type \in stops \/ halted(p)
  THEN [p |-> p, text |-> text]
  ELSE LET a == advanceToken(p)
       IN  scanUntil(iterated(p, a.p), stops, text \o a.token.value \o <<SP>>)

\* the `+` / `!` conclusion marker: [p, concluded]
matchConcluded(p) ==
  LET plus == match(p, "PLUS")
      excl == match(p, "EXCLAIM")
  IN  IF plus.matched THEN [p |-> plus.p, concluded |-> "positive"]
      ELSE IF excl.matched THEN [p |-> excl.p, concluded |-> "negative"]
      ELSE [p |-> p, concluded |-> "undefined"]

(***************************************************************************)
(* Error messages                                                          *)
(***************************************************************************)
MsgOrphanIndent == <<"indented content must be inside a claim or namespace">>
MsgTopLevelRequirement == <<"requirement () must be inside a claim">>
MsgTopLevelNorm == <<"norm (%) must be inside a claim">>
MsgTopLevelIssue == <<"issue (?) must be inside a claim">>
MsgTopLevelEffect == <<"effect (>>) must follow a claim">>
MsgUnexpectedToken(type) == <<"unexpected token", <<type>>>>
MsgClaimNeedsHash == <<"claim needs #">>
MsgNeedsRParen == <<"closing ) required">>
MsgRequirementNeedsLParen == <<"requirement needs (">>
MsgUnclosedParen == <<"closing ) not found">>
MsgNormNeedsPercent == <<"norm needs %">>
MsgUndefinedConstant(name) == <<"constant not defined", name>>
MsgIssueNeedsQuestion == <<"issue needs ?">>
MsgIssueNeedsImplies == <<"issue needs =>">>
MsgEffectNeedsArrow == <<"effect needs >>">>

(***************************************************************************)
(* Parser: productions.  Each returns [p, node]: the parser after the      *)
(* production and the node built.  Let(v, LAMBDA x : e) is e with x bound  *)
(* to the value v: a local constant of the method, computed where it is    *)
(* declared, before the statements that follow it.                         *)
(***************************************************************************)
Let(v, F(_)) == CASE Len(<<v>>) = 1 -> F(v)

\* a call of one of the mutually recursive productions, by its name
RECURSIVE production(_, _)
RECURSIVE parseFactLoop(_, _, _)
RECURSIVE parseCompoundFactLoop(_, _, _)
RECURSIVE parseRequirementBlock(_, _)

startOf(p) == peek(p).range.start

parseComment(p) ==
  Let(advanceToken(p), LAMBDA a :
    [p |-> a.p,
     node |-> [type |-> "Comment", text |-> a.token.value,
               range |-> a.token.range]])

parseReasonStatement(p) ==
  Let(scanUntil(advance(p).p, {"NEWLINE"}, <<>>), LAMBDA r :
    [p |-> r.p,
     node |-> [type |-> "ReasonStatement", content |-> Trim(r.text),
               range |-> createRange(startOf(p), startOf(r.p))]])

parseReference(p) ==
  Let(scanUntil(p, {"ARROW_LEFT", "COLON", "NEWLINE"}, <<>>), LAMBDA r :
    [p |-> r.p,
     node |-> [type |-> "Reference", citation |-> Trim(r.text),
               range |-> createRange(startOf(p), startOf(r.p))]])

EvaluationStops ==
  {"COLON", "AND", "OR", "RPAREN", "ARROW_RIGHT", "AT", "SEMICOLON", "NEWLINE"}

parseEvaluation(p) ==
  Let(scanUntil(p, EvaluationStops, <<>>), LAMBDA r :
    [p |-> r.p,
     node |-> [type |-> "Evaluation", content |-> Trim(r.text),
               range |-> createRange(startOf(p), startOf(r.p))]])

parseEffect(p) ==
  Let(expect(p, "ARROW_RIGHT", MsgEffectNeedsArrow), LAMBDA e :
  Let(scanUntil(e.p, {"NEWLINE"}, <<>>), LAMBDA r :
    [p |-> r.p,
     node |-> [type |-> "Effect", content |-> Trim(r.text),
               range |-> createRange(startOf(p), startOf(r.p))]]))

\* an optional part of a production: [p, node], where node is None when
\* the token `type` that introduces the part is absent and Some(node) of
\* the part parsed after it otherwise
optional(m, r) ==
  IF m.matched THEN [p |-> r.p, node |-> Some(r.node)]
  ELSE [p |-> m.p, node |-> None]

Fact(content, operator, children, evaluation, range) ==
  [ type       |-> "Fact",
    content    |-> content,
    operator   |-> operator,
    children   |-> children,
    evaluation |-> evaluation,
    range      |-> range ]

\* `if (match(AND)) operator = 'and'; else if (match(OR)) operator = 'or'`
\* of the loop of parseCompoundFact: [p, operator], where operator is
\* "undefined" when the code assigns none
matchOperator(p) ==
  Let(match(p, "AND"), LAMBDA mAnd :
    IF mAnd.matched THEN [p |-> mAnd.p, operator |-> "and"]
    ELSE Let(match(mAnd.p, "OR"), LAMBDA mOr :
           [p |-> mOr.p,
            operator |-> IF mOr.matched THEN "or" ELSE "undefined"]))

\* the loop of parseCompoundFact keeping the first operator it meets
RECURSIVE parseCompoundFactLoopFirst(_, _, _)
parseCompoundFactLoopFirst(p, operator, children) ==
  IF ~(check(p, "AND") \/ check(p, "OR")) \/ halted(p)
  THEN [p |-> p, operator |-> operator, children |-> children]
  ELSE Let(matchOperator(p), LAMBDA m :
       Let(production("parseFact", m.p), LAMBDA f :
         parseCompoundFactLoopFirst(
           iterated(p, f.p),
           IF operator # "undefined" THEN operator ELSE m.operator,
           Append(children, f.node))))

\* the loop of parseCompoundFact: [p, operator, children]
parseCompoundFactLoop(p, operator, children) ==
  IF ~(check(p, "AND") \/ check(p, "OR")) \/ halted(p)
  THEN [p |-> p, operator |-> operator, children |-> children]
  ELSE Let(matchOperator(p), LAMBDA m :
       Let(production("parseFact", m.p), LAMBDA f :
         parseCompoundFactLoop(
           iterated(p, f.p),
           IF m.operator # "undefined" THEN m.operator ELSE operator,
           Append(children, f.node))))

parseCompoundFact(p, startPos) ==
  Let(production("parseFact", p), LAMBDA first :
  Let(parseCompoundFactLoop(first.p, "undefined", <<first.node>>), LAMBDA r :
  Let(match(expect(r.p, "RPAREN", MsgNeedsRParen).p, "AT"), LAMBDA m :
  Let(optional(m, parseEvaluation(m.p)), LAMBDA ev :
    [p |-> ev.p,
     node |-> Fact(<<>>, r.operator, Some(r.children), ev.node,
                   createRange(startPos, startOf(ev.p)))]))))

FactStops ==
  {"COLON", "AND", "OR", "RPAREN", "ARROW_RIGHT", "SEMICOLON", "NEWLINE"}

\* the loop of parseFact: [p, content, evaluations]
parseFactLoop(p, content, evaluations) ==
  IF isAtEnd(p) \/ peek(p).type \in FactStops \/ halted(p)
  THEN [p |-> p, content |-> content, evaluations |-> evaluations]
  ELSE IF check(p, "AT")
       THEN Let(parseEvaluation(advance(p).p), LAMBDA ev :
              parseFactLoop(iterated(p, ev.p), content,
                            Append(evaluations, ev.node)))
       ELSE Let(advanceToken(p), LAMBDA a :
              parseFactLoop(iterated(p, a.p),
                            content \o a.token.value \o <<SP>>, evaluations))

\* parseFact with the last evaluation as the evaluation of the fact
parseFactLastEvaluation(p) ==
  Let(match(p, "LPAREN"), LAMBDA m :
    IF m.matched THEN parseCompoundFact(m.p, startOf(p))
    ELSE Let(parseFactLoop(p, <<>>, <<>>), LAMBDA r :
           [p |-> r.p,
            node |-> Fact(Trim(r.content), "undefined", None,
                          IF Len(r.evaluations) > 0
                          THEN Some(r.evaluations[Len(r.evaluations)])
                          ELSE None,
                          createRange(startOf(p), startOf(r.p)))]))

parseFact(p) ==
  Let(match(p, "LPAREN"), LAMBDA m :
    IF m.matched THEN parseCompoundFact(m.p, startOf(p))
    ELSE Let(parseFactLoop(p, <<>>, <<>>), LAMBDA r :
           [p |-> r.p,
            node |-> Fact(Trim(r.content), "undefined", None,
                          IF Len(r.evaluations) > 0
                          THEN Some(r.evaluations[1]) ELSE None,
                          createRange(startOf(p), startOf(r.p)))]))

\* Map.prototype.get and Map.prototype.set on the constants map, a function
\* from names to ConstantDefinition nodes
mapGet(m, k) == IF k \in DOMAIN m THEN Some(m[k]) ELSE None

\* a map that keeps the last key set alone
mapSetAlone(m, k, v) == [x \in {k} |-> v]

mapSet(m, k, v) == [x \in (DOMAIN m) \cup {k} |-> IF x = k THEN v ELSE m[x]]

Norm(concluded, content, reference, subNorm, fact, constantDefinition, constantReference, range) ==
  [ type               |-> "Norm",
    concluded          |-> concluded,
    content            |-> content,
    reference          |-> reference,
    subNorm            |-> subNorm,
    fact               |-> fact,
    constantDefinition |-> constantDefinition,
    constantReference  |-> constantReference,
    subRequirements    |-> None,
    range              |-> range ]

\* the lookup of parseConstantReference without its addError
lookupConstantQuietly(p, constName) ==
  Let(mapGet(p.constants, constName), LAMBDA constDef :
    IF constDef # None
    THEN [p |-> p, content |-> constDef[1].value.content,
          reference |-> constDef[1].value.reference]
    ELSE [p |-> p, content |-> constName, reference |-> None])

\* the lookup of parseConstantReference: [p, content, reference]
lookupConstant(p, constName) ==
  Let(mapGet(p.constants, constName), LAMBDA constDef :
    IF constDef # None
    THEN [p |-> p, content |-> constDef[1].value.content,
          reference |-> constDef[1].value.reference]
    ELSE [p |-> addErrorHere(p, MsgUndefinedConstant(constName)),
          content |-> constName, reference |-> None])

\* parseConstantReference up to its `<=`: [p, matched, constName, content,
\* reference], matched when a `<=` follows the name
parseConstantName(p) ==
  Let(scanUntil(p, {"ARROW_LEFT", "COLON", "SEMICOLON", "NEWLINE"}, <<>>),
      LAMBDA r :
  Let(lookupConstant(r.p, Trim(r.text)), LAMBDA c :
  Let(match(c.p, "ARROW_LEFT"), LAMBDA m :
    [p |-> m.p, matched |-> m.matched, constName |-> Trim(r.text),
     content |-> c.content, reference |-> c.reference])))

parseConstantReference(p, startPos, concluded) ==
  Let(parseConstantName(p), LAMBDA c :
  Let(optional(c, production("parseFact", c.p)), LAMBDA f :
    [p |-> f.p,
     node |-> Norm(concluded, c.content, c.reference, None, f.node, None,
                   Some(c.constName),
                   createRange(startPos, startOf(f.p)))]))

NormContentStops ==
  {"CARET", "ARROW_LEFT", "COLON", "AS", "SEMICOLON", "NEWLINE"}

\* a registration that keeps the entry a name already has
registerConstantOnce(p, constantDefinition, norm) ==
  IF constantDefinition \in DOMAIN p.constants THEN p
  ELSE [p EXCEPT !.constants =
          mapSet(@, constantDefinition,
                 [ type  |-> "ConstantDefinition",
                   name  |-> constantDefinition,
                   value |-> norm,
                   range |-> norm.range ])]

\* constants.set(constantDefinition, {value: norm}) of parseNorm
registerConstant(p, constantDefinition, norm) ==
  [p EXCEPT !.constants =
     mapSet(@, constantDefinition,
            [ type  |-> "ConstantDefinition",
              name  |-> constantDefinition,
              value |-> norm,
              range |-> norm.range ])]

\* the `as name` clause of parseNorm, after `as`: [p, fact,
\* constantDefinition]
\* the name after `as` and the `<=` after it: [p, matched, constName]
parseNormAsName(p) ==
  Let(scanUntil(p, {"ARROW_LEFT", "NEWLINE"}, <<>>), LAMBDA r :
  Let(match(r.p, "ARROW_LEFT"), LAMBDA m :
    [p |-> m.p, matched |-> m.matched, constName |-> Trim(r.text)]))

parseNormAs(p, startPos, concluded, content, reference, subNorm, fact) ==
  Let(parseNormAsName(p), LAMBDA n :
  Let(optional(n, production("parseFact", n.p)), LAMBDA f :
  Let(IF n.matched THEN f.node ELSE fact, LAMBDA fact1 :
    [p |-> registerConstant(f.p, n.constName,
             Norm(concluded, content, reference, subNorm, fact1, None, None,
                  createRange(startPos, startOf(f.p)))),
     fact |-> fact1,
     constantDefinition |-> Some(n.constName)])))

\* parseNorm up to `$`: [p, matched, startPos, concluded], matched when the
\* norm is a constant reference
parseNormStart(p) ==
  Let(matchConcluded(p), LAMBDA c :
  Let(match(c.p, "DOLLAR"), LAMBDA d :
    [p |-> d.p, matched |-> d.matched, startPos |-> startOf(p),
     concluded |-> c.concluded]))

\* the content of parseNorm, its reference and the `:` after them:
\* [p, matched, content, reference], matched when a sub-norm follows
parseNormContent(p) ==
  Let(scanUntil(expect(p, "PERCENT", MsgNormNeedsPercent).p,
                NormContentStops, <<>>), LAMBDA r :
  Let(match(r.p, "CARET"), LAMBDA mCaret :
  Let(optional(mCaret, parseReference(mCaret.p)), LAMBDA reference :
  Let(match(reference.p, "COLON"), LAMBDA mColon :
    [p |-> mColon.p,
     matched |-> mColon.matched
                 /\ peek(mColon.p).type \in {"PERCENT", "PLUS", "EXCLAIM"},
     content |-> Trim(r.text),
     reference |-> reference.node]))))

\* parseNorm from `%` to the `<=` after the optional `: %subnorm`:
\* [p, matched, content, reference, subNorm], matched when a fact follows
parseSubNorm(p) ==
  Let(parseNormContent(p), LAMBDA h :
  Let(optional(h, production("parseNorm", h.p)), LAMBDA sub :
  Let(match(sub.p, "ARROW_LEFT"), LAMBDA mArrow :
    [p |-> mArrow.p, matched |-> mArrow.matched, content |-> h.content,
     reference |-> h.reference, subNorm |-> sub.node])))

\* the fact of parseNorm, its own or the one of its sub-norm, and the `as`
\* after it: [p, matched, fact], matched when a constant name follows
parseNormFact(h) ==
  Let(optional(h, production("parseFact", h.p)), LAMBDA f :
  Let(match(f.p, "AS"), LAMBDA mAs :
    [p |-> mAs.p, matched |-> mAs.matched,
     fact |-> IF h.matched THEN f.node
              ELSE IF h.subNorm # None THEN h.subNorm[1].fact
              ELSE None]))

parseNorm(p) ==
  Let(parseNormStart(p), LAMBDA s :
    IF s.matched THEN parseConstantReference(s.p, s.startPos, s.concluded)
    ELSE
      Let(parseSubNorm(s.p), LAMBDA h :
      Let(parseNormFact(h), LAMBDA f :
      Let(IF f.matched
          THEN parseNormAs(f.p, s.startPos, s.concluded, h.content,
                           h.reference, h.subNorm, f.fact)
          ELSE [p |-> f.p, fact |-> f.fact, constantDefinition |-> None],
          LAMBDA def :
        [p |-> def.p,
         node |-> Norm(s.concluded, h.content, h.reference, h.subNorm,
                       def.fact, def.constantDefinition, None,
                       createRange(s.startPos, startOf(def.p)))]))))

\* block entries `%`, `$`, `+%`, `+$`, `!%`, `!$`
startsNorm(p) ==
  \/ check(p, "PERCENT")
  \/ check(p, "DOLLAR")
  \/ check(p, "PLUS") /\ peek1(p).type \in {"PERCENT", "DOLLAR"}
  \/ check(p, "EXCLAIM") /\ peek1(p).type \in {"PERCENT", "DOLLAR"}

\* block entries `(`, `+(`, `!(`
startsRequirement(p) ==
  \/ check(p, "LPAREN")
  \/ check(p, "PLUS") /\ peek1(p).type = "LPAREN"
  \/ check(p, "EXCLAIM") /\ peek1(p).type = "LPAREN"

Requirement(concluded, name, norm, fact, subRequirements, issue, reasonStatements, range) ==
  [ type             |-> "Requirement",
    concluded        |-> concluded,
    name             |-> name,
    norm             |-> norm,
    fact             |-> fact,
    subRequirements  |-> IF Len(subRequirements) > 0
                         THEN Some(subRequirements) ELSE None,
    issue            |-> issue,
    reasonStatements |-> IF Len(reasonStatements) > 0
                         THEN Some(reasonStatements) ELSE None,
    range            |-> range ]

\* the name loop of parseRequirement: [p, name, lastTokenEnd]
RECURSIVE parseRequirementName(_, _, _)
parseRequirementName(p, name, lastTokenEnd) ==
  IF isAtEnd(p) \/ check(p, "RPAREN") \/ check(p, "NEWLINE") \/ halted(p)
  THEN [p |-> p, name |-> name, lastTokenEnd |-> lastTokenEnd]
  ELSE Let(advanceToken(p), LAMBDA a :
         parseRequirementName(iterated(p, a.p), name \o a.token.value,
                              a.token.range.end))

\* the end of the name in parseRequirement with the error for a missing `)`
\* at the cursor
closeRequirementNameAtCursor(n, openBracketPos) ==
  IF check(n.p, "NEWLINE") \/ isAtEnd(n.p)
  THEN addErrorHere(n.p, MsgUnclosedParen)
  ELSE advance(n.p).p

\* the end of the name in parseRequirement: the error for a missing `)`,
\* anchored at the opening bracket, or the `)` consumed
closeRequirementName(n, openBracketPos) ==
  IF check(n.p, "NEWLINE") \/ isAtEnd(n.p)
  THEN addError(n.p, MsgUnclosedParen,
                [start |-> openBracketPos, end |-> n.lastTokenEnd])
  ELSE advance(n.p).p

\* the tokens that open the inline form after `(name)`: [p, form], where
\* form is "norm" for `: %norm`, "fact" for `<= fact` and "none" otherwise
matchRequirementInline(p) ==
  Let(match(p, "COLON"), LAMBDA mColon :
    IF mColon.matched
       /\ peek(mColon.p).type \in {"PERCENT", "DOLLAR", "PLUS", "EXCLAIM"}
    THEN [p |-> mColon.p, form |-> "norm"]
    ELSE Let(match(mColon.p, "ARROW_LEFT"), LAMBDA mA :
           [p |-> mA.p, form |-> IF mA.matched THEN "fact" ELSE "none"]))

\* the inline form after `(name)`: [p, norm, fact]
parseRequirementInline(p, form) ==
  IF form = "norm"
  THEN Let(production("parseNorm", p), LAMBDA n :
         [p |-> n.p, norm |-> Some(n.node), fact |-> n.node.fact])
  ELSE IF form = "fact"
  THEN Let(production("parseFact", p), LAMBDA f :
         [p |-> f.p, norm |-> None, fact |-> Some(f.node)])
  ELSE [p |-> p, norm |-> None, fact |-> None]

\* what the sub-block of a requirement has gathered before its first line
emptyRequirementBlock(fact) ==
  [subRequirements |-> <<>>, fact |-> fact, reasonStatements |-> <<>>]

\* the loop over the indented sub-block of parseRequirement and of
\* parseNormAsRequirement: acc is [subRequirements, fact, reasonStatements]
parseRequirementBlock(p, acc) ==
  IF isAtEnd(p) \/ check(p, "DEDENT") \/ halted(p) THEN [p |-> p, acc |-> acc]
  ELSE IF startsNorm(p) \/ startsRequirement(p)
       THEN Let(production(IF startsNorm(p) THEN "parseNormAsRequirement"
                           ELSE "parseRequirement", p), LAMBDA r :
              parseRequirementBlock(iterated(p, r.p),
                [acc EXCEPT !.subRequirements = Append(@, r.node)]))
  ELSE IF check(p, "ARROW_LEFT")
       THEN Let(production("parseFact", advance(p).p), LAMBDA f :
              parseRequirementBlock(iterated(p, f.p),
                [acc EXCEPT !.fact = Some(f.node)]))
  ELSE IF check(p, "SEMICOLON")
       THEN Let(parseReasonStatement(p), LAMBDA r :
              parseRequirementBlock(iterated(p, r.p),
                [acc EXCEPT !.reasonStatements = Append(@, r.node)]))
  ELSE IF check(p, "NEWLINE") \/ check(p, "COMMENT")
       THEN parseRequirementBlock(iterated(p, advance(p).p), acc)
  ELSE [p |-> p, acc |-> acc]

\* `if (check(INDENT)) { advance(); <loop>; if (check(DEDENT)) advance(); }`
\* of parseRequirement and parseNormAsRequirement: [p, acc]
parseRequirementIndented(p, fact) ==
  IF check(p, "INDENT")
  THEN Let(parseRequirementBlock(advance(p).p, emptyRequirementBlock(fact)),
           LAMBDA b : [p |-> match(b.p, "DEDENT").p, acc |-> b.acc])
  ELSE [p |-> p, acc |-> emptyRequirementBlock(fact)]

\* parseRequirement up to the inline form: [p, form, concluded, name]
parseRequirementHead(p) ==
  Let(matchConcluded(p), LAMBDA c :
  Let(expect(c.p, "LPAREN", MsgRequirementNeedsLParen), LAMBDA openBracket :
  Let(parseRequirementName(openBracket.p, <<>>, openBracket.token.range.end),
      LAMBDA n :
  Let(matchRequirementInline(
        closeRequirementName(n, openBracket.token.range.start)), LAMBDA m :
    [p |-> m.p, form |-> m.form, concluded |-> c.concluded,
     name |-> n.name]))))

parseRequirement(p) ==
  Let(parseRequirementHead(p), LAMBDA h :
  Let(parseRequirementInline(h.p, h.form), LAMBDA i :
  Let(parseRequirementIndented(skipNewlines(i.p), i.fact), LAMBDA b :
    [p |-> b.p,
     node |-> Requirement(h.concluded, h.name, i.norm, b.acc.fact,
                          b.acc.subRequirements, None, b.acc.reasonStatements,
                          createRange(startOf(p), startOf(b.p)))])))

\* parseNormAsRequirement with the fact of the sub-block kept by the
\* requirement alone
parseNormAsRequirementDetached(p) ==
  Let(production("parseNorm", p), LAMBDA n :
  Let(parseRequirementIndented(skipNewlines(n.p), n.node.fact), LAMBDA b :
    [p |-> b.p,
     node |-> Requirement(n.node.concluded, n.node.content, Some(n.node),
                          b.acc.fact, b.acc.subRequirements, None,
                          b.acc.reasonStatements,
                          createRange(startOf(p), startOf(b.p)))]))

parseNormAsRequirement(p) ==
  Let(production("parseNorm", p), LAMBDA n :
  Let(parseRequirementIndented(skipNewlines(n.p), n.node.fact), LAMBDA b :
  Let([n.node EXCEPT !.fact = b.acc.fact], LAMBDA norm :
    [p |-> b.p,
     node |-> Requirement(norm.concluded, norm.content, Some(norm), norm.fact,
                          b.acc.subRequirements, None, b.acc.reasonStatements,
                          createRange(startOf(p), startOf(b.p)))])))

Reason(content, operator, range) ==
  [type |-> "Reason", content |-> content, operator |-> operator,
   range |-> range]

ReasonStops == {"AND", "OR", "RPAREN"}

\* the loop over `& reason` / `| reason` of parseReasons: [p, reasons]
RECURSIVE parseReasonsLoop(_, _)
parseReasonsLoop(p, reasons) ==
  IF ~(check(p, "AND") \/ check(p, "OR")) \/ halted(p)
  THEN [p |-> p, reasons |-> reasons]
  ELSE Let(match(p, "AND"), LAMBDA m :
       Let(advance(m.p).p, LAMBDA p1 :
       Let(scanUntil(p1, ReasonStops, <<>>), LAMBDA r :
         parseReasonsLoop(
           iterated(p, r.p),
           Append(reasons,
                  Reason(Trim(r.text), IF m.matched THEN "and" ELSE "or",
                         createRange(startOf(p1), startOf(r.p))))))))

\* [p, reasons]
parseReasons(p) ==
  Let(match(p, "LPAREN"), LAMBDA m :
    IF m.matched
    THEN Let(scanUntil(m.p, ReasonStops, <<>>), LAMBDA first :
         Let(parseReasonsLoop(first.p,
               << Reason(Trim(first.text), "undefined",
                         createRange(startOf(p), startOf(first.p))) >>),
             LAMBDA r :
           [p |-> expect(r.p, "RPAREN", MsgNeedsRParen).p,
            reasons |-> r.reasons]))
    ELSE Let(scanUntil(p, {"IMPLIES", "NEWLINE"}, <<>>), LAMBDA r :
           [p |-> r.p,
            reasons |-> << Reason(Trim(r.text), "undefined",
                                  createRange(startOf(p), startOf(r.p))) >>]))

\* the requirement put in front of norm.subRequirements
unshiftSubRequirement(norm, requirement) ==
  [norm EXCEPT !.subRequirements =
     Some(<<requirement>> \o (IF @ = None THEN <<>> ELSE @[1]))]

\* norm.subRequirements.push(requirement), after `if (!norm.subRequirements)
\* norm.subRequirements = []`
pushSubRequirement(norm, requirement) ==
  [norm EXCEPT !.subRequirements =
     Some(Append(IF @ = None THEN <<>> ELSE @[1], requirement))]

\* the loop over the indented sub-block of parseIssue: [p, norm]
RECURSIVE parseIssueBlock(_, _)
parseIssueBlock(p, norm) ==
  IF isAtEnd(p) \/ check(p, "DEDENT") \/ halted(p)
  THEN [p |-> p, norm |-> norm]
  ELSE IF check(p, "PERCENT") \/ check(p, "PLUS") \/ check(p, "EXCLAIM")
       THEN Let(production("parseNormAsRequirement", p), LAMBDA r :
              parseIssueBlock(iterated(p, r.p),
                              pushSubRequirement(norm, r.node)))
  ELSE IF check(p, "NEWLINE")
       THEN parseIssueBlock(iterated(p, advance(p).p), norm)
  ELSE [p |-> p, norm |-> norm]

\* the indented sub-block of parseIssue: [p, norm]
parseIssueIndented(p, norm) ==
  IF check(p, "INDENT")
  THEN Let(parseIssueBlock(advance(p).p, norm), LAMBDA b :
         [p |-> match(b.p, "DEDENT").p, norm |-> b.norm])
  ELSE [p |-> p, norm |-> norm]

\* the optional `~> reasons` of parseIssue: [p, reasons]
parseIssueReasons(p) ==
  Let(match(p, "TILDE_ARROW"), LAMBDA mT :
    IF mT.matched THEN parseReasons(mT.p)
    ELSE [p |-> mT.p, reasons |-> <<>>])

\* parseIssue up to its norm: [p, question, reasons]
parseIssueQuestion(p) ==
  Let(scanUntil(expect(p, "QUESTION", MsgIssueNeedsQuestion).p,
                {"TILDE_ARROW", "IMPLIES", "NEWLINE"}, <<>>), LAMBDA q :
  Let(parseIssueReasons(q.p), LAMBDA rs :
    [p |-> expect(rs.p, "IMPLIES", MsgIssueNeedsImplies).p,
     question |-> Trim(q.text),
     reasons |-> IF Len(rs.reasons) > 0 THEN Some(rs.reasons) ELSE None]))

parseIssue(p) ==
  Let(parseIssueQuestion(p), LAMBDA q :
  Let(production("parseNorm", q.p), LAMBDA n :
  Let(parseIssueIndented(skipNewlines(n.p), n.node), LAMBDA b :
    [p |-> b.p,
     node |-> [type |-> "Issue", question |-> q.question,
               reasons |-> q.reasons,
               norm |-> b.norm,
               range |-> createRange(startOf(p), startOf(b.p))]])))

parseIssueAsRequirement(p) ==
  Let(production("parseIssue", p), LAMBDA issue :
    [p |-> issue.p,
     node |-> [ type             |-> "Requirement",
                concluded        |-> issue.node.norm.concluded,
                name             |-> issue.node.question,
                norm             |-> None,
                fact             |-> None,
                subRequirements  |-> None,
                issue            |-> Some(issue.node),
                reasonStatements |-> None,
                range |-> createRange(startOf(p), startOf(issue.p)) ]])

\* the production a requirement entry of a claim's block is parsed by
claimEntry(p) ==
  IF check(p, "LPAREN") THEN "parseRequirement"
  ELSE IF startsNorm(p) \/ startsRequirement(p)
       THEN IF peek1(p).type = "LPAREN" THEN "parseRequirement"
            ELSE "parseNormAsRequirement"
  ELSE IF check(p, "PLUS") \/ check(p, "EXCLAIM")
       THEN "parseNormAsRequirement"
  ELSE IF check(p, "QUESTION") THEN "parseIssueAsRequirement"
  ELSE "none"

\* the loop over the indented block of parseClaim: acc is
\* [requirements, reasonStatements, effect]
RECURSIVE parseClaimBlock(_, _)
parseClaimBlock(p, acc) ==
  IF isAtEnd(p) \/ check(p, "DEDENT") \/ halted(p) THEN [p |-> p, acc |-> acc]
  ELSE IF claimEntry(p) # "none"
       THEN Let(production(claimEntry(p), p), LAMBDA r :
              parseClaimBlock(iterated(p, r.p),
                [acc EXCEPT !.requirements = Append(@, r.node)]))
  ELSE IF check(p, "ARROW_RIGHT")
       THEN Let(parseEffect(p), LAMBDA r :
              parseClaimBlock(iterated(p, r.p),
                [acc EXCEPT !.effect = Some(r.node)]))
  ELSE IF check(p, "SEMICOLON")
       THEN Let(parseReasonStatement(p), LAMBDA r :
              parseClaimBlock(iterated(p, r.p),
                [acc EXCEPT !.reasonStatements = Append(@, r.node)]))
  ELSE IF check(p, "NEWLINE") \/ check(p, "COMMENT")
       THEN parseClaimBlock(iterated(p, advance(p).p), acc)
  ELSE [p |-> p, acc |-> acc]

\* what the block of a claim has gathered before its first line
emptyClaimBlock ==
  [requirements |-> <<>>, reasonStatements |-> <<>>, effect |-> None]

\* the indented block of parseClaim: [p, acc]
parseClaimIndented(p, hasRequirements) ==
  IF hasRequirements /\ check(p, "INDENT")
  THEN Let(parseClaimBlock(advance(p).p, emptyClaimBlock), LAMBDA b :
         [p |-> match(b.p, "DEDENT").p, acc |-> b.acc])
  ELSE [p |-> p, acc |-> emptyClaimBlock]

\* parseClaim without the effect after its block
parseClaimEffectInside(p, effect) ==
  [p |-> p, node |-> effect]

\* the effect after the block of parseClaim: [p, node]
parseClaimEffect(p, effect) ==
  IF check(p, "ARROW_RIGHT")
  THEN Let(parseEffect(p), LAMBDA e : [p |-> e.p, node |-> Some(e.node)])
  ELSE [p |-> p, node |-> effect]

\* parseClaim up to its `<=`: [p, matched, concluded, name, reference],
\* matched when a fact follows
parseClaimName(p) ==
  Let(matchConcluded(p), LAMBDA c :
  Let(scanUntil(expect(c.p, "HASH", MsgClaimNeedsHash).p,
                {"CARET", "ARROW_LEFT", "COLON", "NEWLINE"}, <<>>), LAMBDA n :
  Let(match(n.p, "CARET"), LAMBDA mCaret :
  Let(optional(mCaret, parseReference(mCaret.p)), LAMBDA reference :
  Let(match(reference.p, "ARROW_LEFT"), LAMBDA mArrow :
    [p |-> mArrow.p, matched |-> mArrow.matched, concluded |-> c.concluded,
     name |-> Trim(n.text), reference |-> reference.node])))))

\* the fact of parseClaim and the `:` after it: [p, matched, fact], matched
\* when the claim has requirements
parseClaimFact(h) ==
  Let(optional(h, production("parseFact", h.p)), LAMBDA fact :
  Let(match(fact.p, "COLON"), LAMBDA hasRequirements :
    [p |-> hasRequirements.p, matched |-> hasRequirements.matched,
     fact |-> fact.node]))

parseClaim(p) ==
  Let(parseClaimName(p), LAMBDA h :
  Let(parseClaimFact(h), LAMBDA f :
  Let(parseClaimIndented(skipNewlines(f.p), f.matched), LAMBDA b :
  Let(parseClaimEffect(b.p, b.acc.effect), LAMBDA effect :
    [p |-> effect.p,
     node |-> [ type             |-> "Claim",
                concluded        |-> h.concluded,
                name             |-> h.name,
                reference        |-> h.reference,
                fact             |-> f.fact,
                requirements     |-> b.acc.requirements,
                effect           |-> effect.node,
                reasonStatements |-> IF Len(b.acc.reasonStatements) > 0
                                     THEN Some(b.acc.reasonStatements)
                                     ELSE None,
                range |-> createRange(startOf(p), startOf(effect.p)) ]]))))

production(name, p) ==
  CASE name = "parseFact" -> parseFact(p)
    [] name = "parseNorm" -> parseNorm(p)
    [] name = "parseRequirement" -> parseRequirement(p)
    [] name = "parseNormAsRequirement" -> parseNormAsRequirement(p)
    [] name = "parseIssue" -> parseIssue(p)
    [] name = "parseIssueAsRequirement" -> parseIssueAsRequirement(p)
    [] name = "parseClaim" -> parseClaim(p)

\* the loop over the indented block of parseNamespace dropping the comments
RECURSIVE parseNamespaceBlockOfClaims(_, _)
parseNamespaceBlockOfClaims(p, children) ==
  IF isAtEnd(p) \/ check(p, "DEDENT") \/ halted(p)
  THEN [p |-> p, children |-> children]
  ELSE IF check(p, "HASH") \/ check(p, "PLUS") \/ check(p, "EXCLAIM")
       THEN Let(production("parseClaim", p), LAMBDA r :
              parseNamespaceBlockOfClaims(iterated(p, r.p),
                                          Append(children, r.node)))
  ELSE IF check(p, "NEWLINE") \/ check(p, "COMMENT")
       THEN parseNamespaceBlockOfClaims(iterated(p, advance(p).p), children)
  ELSE [p |-> p, children |-> children]

\* the loop over the indented block of parseNamespace: [p, children]
RECURSIVE parseNamespaceBlock(_, _)
parseNamespaceBlock(p, children) ==
  IF isAtEnd(p) \/ check(p, "DEDENT") \/ halted(p)
  THEN [p |-> p, children |-> children]
  ELSE IF check(p, "COMMENT") \/ check(p, "HASH") \/ check(p, "PLUS")
          \/ check(p, "EXCLAIM")
       THEN Let(IF check(p, "COMMENT") THEN parseComment(p)
                ELSE production("parseClaim", p), LAMBDA r :
              parseNamespaceBlock(iterated(p, r.p), Append(children, r.node)))
  ELSE IF check(p, "NEWLINE")
       THEN parseNamespaceBlock(iterated(p, advance(p).p), children)
  ELSE [p |-> p, children |-> children]

\* the indented block of parseNamespace: [p, children]
parseNamespaceIndented(p) ==
  IF check(p, "INDENT")
  THEN Let(parseNamespaceBlock(advance(p).p, <<>>), LAMBDA b :
         [p |-> match(b.p, "DEDENT").p, children |-> b.children])
  ELSE [p |-> p, children |-> <<>>]

\* parseNamespace up to its block: [p, name, start]
parseNamespaceName(p) ==
  Let(advanceToken(p), LAMBDA startToken :
  Let(scanUntil(startToken.p, {"NEWLINE"}, <<>>), LAMBDA n :
    [p |-> skipNewlines(n.p), name |-> Trim(n.text),
     start |-> startToken.token.range.start]))

parseNamespace(p) ==
  Let(parseNamespaceName(p), LAMBDA n :
  Let(parseNamespaceIndented(n.p), LAMBDA b :
    [p |-> b.p,
     node |-> [ type     |-> "Namespace",
                name     |-> n.name,
                children |-> b.children,
                range    |-> createRange(n.start, startOf(b.p)) ]]))

\* the loop of skipOrphanedIndentedBlock not counting the INDENTs inside
RECURSIVE skipOrphanedIndentedFlat(_, _)
skipOrphanedIndentedFlat(p, depth) ==
  IF isAtEnd(p) \/ ~(depth > 0) \/ halted(p) THEN p
  ELSE skipOrphanedIndentedFlat(
         iterated(p, advance(p).p),
         IF check(p, "DEDENT") THEN depth - 1 ELSE depth)

\* the loop of skipOrphanedIndentedBlock
RECURSIVE skipOrphanedIndentedLoop(_, _)
skipOrphanedIndentedLoop(p, depth) ==
  IF isAtEnd(p) \/ ~(depth > 0) \/ halted(p) THEN p
  ELSE skipOrphanedIndentedLoop(
         iterated(p, advance(p).p),
         IF check(p, "INDENT") THEN depth + 1
         ELSE IF check(p, "DEDENT") THEN depth - 1
         ELSE depth)

skipOrphanedIndentedBlock(p) == skipOrphanedIndentedLoop(advance(p).p, 1)

\* the loop of skipUntilNewline
RECURSIVE skipUntilNewlineLoop(_)
skipUntilNewlineLoop(p) ==
  IF isAtEnd(p) \/ check(p, "NEWLINE") \/ halted(p) THEN p
  ELSE skipUntilNewlineLoop(iterated(p, advance(p).p))

\* skipUntilNewline stopping before the NEWLINE
skipUntilNewlineKept(p) == skipUntilNewlineLoop(p)

skipUntilNewline(p) == match(skipUntilNewlineLoop(p), "NEWLINE").p

(***************************************************************************)
(* Inputs.  An input is a record that says how the source string is        *)
(* written: `family` names its shape, `lines` are its lines, and Render    *)
(* gives its characters.  A line is `indent` spaces and then a construct   *)
(* of the notation, named by `kind`, written with the texts `words` and,   *)
(* for a compound fact, the operators `ops` between them.                  *)
(***************************************************************************)
RECURSIVE Spaces(_)
Spaces(n) == IF n = 0 THEN <<>> ELSE <<SP>> \o Spaces(n - 1)

RECURSIVE JoinWith(_, _)
JoinWith(parts, sep) ==
  IF parts = <<>> THEN <<>>
  ELSE IF Len(parts) = 1 THEN parts[1]
  ELSE parts[1] \o sep \o JoinWith(Tail(parts), sep)

\* all sequences of at most n elements of `pool`
RECURSIVE SeqsUpTo(_, _)
SeqsUpTo(pool, n) ==
  IF n = 0 THEN {<<>>}
  ELSE {<<>>} \cup {<<c>> \o s : c \in pool, s \in SeqsUpTo(pool, n - 1)}

\* all sequences of exactly n elements of `pool`
SeqsOf(pool, n) == {s \in SeqsUpTo(pool, n) : Len(s) = n}

Line(indent, kind, words, ops) ==
  [indent |-> indent, kind |-> kind, words |-> words, ops |-> ops]

\* `w1 op1 w2 ... op_n w_{n+1}`
RECURSIVE Interleave(_, _)
Interleave(words, ops) ==
  IF ops = <<>> THEN words[1]
  ELSE words[1] \o <<ops[1]>> \o Interleave(Tail(words), Tail(ops))

LineText(l) ==
  CASE l.kind = "raw" -> l.words[1]
    [] l.kind = "namespace" -> <<":", ":">> \o l.words[1]
    [] l.kind = "comment" -> <<"/", "/">> \o l.words[1]
    [] l.kind = "claim" -> <<"#">> \o l.words[1]
    [] l.kind = "claimBlock" -> <<"#">> \o l.words[1] \o <<":">>
    [] l.kind = "claimFact" ->
         <<"+", "#">> \o l.words[1] \o <<"<", "=">> \o l.words[2]
    [] l.kind = "compound" ->
         <<"#", "A", "<", "=", "(">> \o Interleave(l.words, l.ops) \o <<")">>
    [] l.kind = "def" ->
         <<"%">> \o l.words[1] \o <<SP, "a", "s", SP>> \o l.words[2]
    [] l.kind = "defReference" ->
         <<"%">> \o l.words[1] \o <<SP, "^">> \o l.words[2]
           \o <<SP, "a", "s", SP>> \o l.words[3]
    [] l.kind = "defReferenceFact" ->
         <<"%">> \o l.words[1] \o <<SP, "^">> \o l.words[2]
           \o <<"<", "=", "(", "f", ")", SP, "a", "s", SP>> \o l.words[3]
    [] l.kind = "defFact" ->
         <<"%">> \o l.words[1] \o <<SP, "a", "s", SP>> \o l.words[3]
           \o <<SP, "<", "=", SP>> \o l.words[2]
    [] l.kind = "factDef" ->
         <<"%">> \o l.words[1] \o <<SP, "<", "=", SP>> \o l.words[2]
           \o <<SP, "a", "s", SP>> \o l.words[3]
    [] l.kind = "ref" -> <<"$">> \o l.words[1]
    [] l.kind = "refFact" ->
         <<"$">> \o l.words[1] \o <<"<", "=">> \o l.words[2]
    [] l.kind = "req" -> <<"(">> \o l.words[1] \o <<")">>
    [] l.kind = "reqOpen" -> <<"(">> \o l.words[1]
    [] l.kind = "reqJp" -> <<LBracketJp>> \o l.words[1] \o <<RBracketJp>>
    [] l.kind = "reqJpNorm" ->
         <<LBracketJp>> \o l.words[1] \o <<RBracketJp, ":", SP, "%">>
           \o l.words[2]
    [] l.kind = "reqNorm" ->
         <<"(">> \o l.words[1] \o <<")", ":", SP, "%">> \o l.words[2]
    [] l.kind = "issue" -> <<"?">> \o l.words[1]
    [] l.kind = "issueNorm" ->
         <<"?">> \o l.words[1] \o <<"=", ">", "%">> \o l.words[2]
    [] l.kind = "issueReason" ->
         <<"?">> \o l.words[1] \o <<"~", ">">> \o l.words[2]
           \o <<"=", ">", "+", "%">> \o l.words[3]
    [] l.kind = "norm" -> l.words[1] \o <<"%">> \o l.words[2]
    [] l.kind = "issueChain" ->
         <<"?", "q", "~", ">", "(">> \o Interleave(l.words, l.ops)
           \o <<")", "=", ">", "%", "N">>
    [] l.kind = "effect" -> <<">", ">">> \o l.words[1]
    [] l.kind = "evaluated" ->
         <<"#", "A", "<", "=">> \o JoinWith(l.words, <<"@">>)

RenderLine(l) == Spaces(l.indent) \o LineText(l)
RenderLines(lines) ==
  JoinWith([i \in 1..Len(lines) |-> RenderLine(lines[i])], <<NL>>)

Render(in) == RenderLines(in.lines)

Input(family, lines) == [family |-> family, lines |-> lines]

\* family "chars": every string of at most MaxLen characters of Alphabet
MaxLen == 3
Alphabet == {"#", "a", NL, SP, "(", ")", ":", "%", "/", ">", "+", ";"}
CharInputs ==
  {Input("chars", <<Line(0, "raw", <<s>>, <<>>)>>) :
     s \in SeqsUpTo(Alphabet, MaxLen)}

\* family "draft": at most MaxDraftLines lines of unfinished constructs, at
\* column 0 or indented
MaxDraftLines == 3
DraftBodies ==
  { <<"#", "A", ":">>,
    <<"(", "r">>,
    <<"+", "%", "X", ":", "%", "Y", "<", "=", "(", "f", "&">>,
    <<"?", "q", "~", ">", "(", "a", "&">>,
    <<"$", "C", "<", "=", "f", "@", "e", "/">>,
    <<"&">> }
DraftInputs ==
  {Input("draft", ls) :
     ls \in SeqsUpTo({Line(i, "raw", <<b>>, <<>>) :
                        i \in {0, 1}, b \in DraftBodies}, MaxDraftLines)}

\* family "const": claims `#A:` whose blocks define and use constants, at
\* most MaxConstLines lines after the first `#A:`
MaxConstLines == 3
ClaimA == Line(0, "claimBlock", <<<<"A">>>>, <<>>)
ConstLines ==
  { Line(2, "def", <<<<"X">>, <<"C">>>>, <<>>),
    Line(2, "def", <<<<"Y">>, <<"C">>>>, <<>>),
    Line(2, "def", <<<<"Y">>, <<"D">>>>, <<>>),
    Line(2, "ref", <<<<"C">>>>, <<>>),
    Line(2, "refFact", <<<<"C">>, <<"f">>>>, <<>>),
    ClaimA }
ConstInputs ==
  {Input("const", <<ClaimA>> \o ls) : ls \in SeqsUpTo(ConstLines, MaxConstLines)}

\* family "req": a claim `#A:` with a block of requirements, closed or not,
\* at two depths, and claims `#B` at column 0, at most MaxReqLines lines
\* after `#A:`
MaxReqLines == 3
ReqLines ==
  { Line(4, "req", <<<<"r">>>>, <<>>),
    Line(4, "reqOpen", <<<<"r", "2">>>>, <<>>),
    Line(8, "req", <<<<"s">>>>, <<>>),
    Line(8, "reqOpen", <<<<"s">>>>, <<>>),
    Line(0, "claim", <<<<"B">>>>, <<>>) }
ReqInputs ==
  {Input("req", <<ClaimA>> \o ls) : ls \in SeqsUpTo(ReqLines, MaxReqLines)}

\* family "namespace": a line `::N` and at most MaxNamespaceLines lines of
\* an indented block
MaxNamespaceLines == 3
NamespaceLines ==
  { Line(2, "claim", <<<<"A">>>>, <<>>),
    Line(2, "comment", <<<<"c">>>>, <<>>),
    Line(2, "claimFact", <<<<"B">>, <<"f">>>>, <<>>),
    Line(2, "claimBlock", <<<<"D">>>>, <<>>),
    Line(4, "req", <<<<"r">>>>, <<>>),
    Line(2, "namespace", <<<<"M">>>>, <<>>) }
NamespaceInputs ==
  {Input("namespace", <<Line(0, "namespace", <<<<"N">>>>, <<>>)>> \o ls) :
     ls \in SeqsUpTo(NamespaceLines, MaxNamespaceLines)}

\* family "fact": a claim `#A<=(f1 op1 ... f_{n+1})`, n at most MaxOps, each
\* operand a text or a compound fact itself
MaxOps == 2
Operands == {<<"f">>, <<"g">>, <<"(", "g", "|", "h", ")">>}
Operators == {"&", "|"}
FactInputs ==
  {Input("fact", <<Line(0, "compound", in.words, in.ops)>>) :
     in \in UNION {[words : SeqsOf(Operands, n + 1), ops : SeqsOf(Operators, n)] :
                     n \in 0..MaxOps}}

\* family "eval": a claim `#A<=f@e1@...@ek` with a flat fact and k
\* evaluations, k at most MaxEvals, an evaluation possibly empty
MaxEvals == 3
FactTexts == {<<"f">>, <<"g", SP, "h">>}
EvaluationTexts == {<<"e">>, <<"d", SP, "e">>, <<>>}
EvalInputs ==
  {Input("eval", <<Line(0, "evaluated", <<f>> \o es, <<>>)>>) :
     f \in FactTexts, es \in SeqsUpTo(EvaluationTexts, MaxEvals)}

\* family "indent": at most MaxIndentLines lines, each an indentation of
\* spaces, tabs and U+3000 and then a text, a comment or nothing
MaxIndentLines == 3
Indentations == {<<>>, <<SP>>, <<SP, SP>>, <<TAB>>, <<IDSP>>}
LineBodies == {<<"a">>, <<"/", "/", "c">>, <<>>}
IndentInputs ==
  {Input("indent", ls) :
     ls \in SeqsUpTo({Line(0, "raw", <<i \o b>>, <<>>) :
                        i \in Indentations, b \in LineBodies},
                     MaxIndentLines)}

\* family "width": every string of at most MaxWidthLen characters of
\* operators in their two widths, the escape and a letter
MaxWidthLen == 3
WidthAlphabet == {"#", FwHash, ":", FwColon, "&", FwAmp, "\\", "a"}
WidthInputs ==
  {Input("width", <<Line(0, "raw", <<s>>, <<>>)>>) :
     s \in SeqsUpTo(WidthAlphabet, MaxWidthLen)}

\* family "top": at most MaxTopLines lines at column 0, of constructs that
\* belong inside a claim and of claims and namespaces
MaxTopLines == 3
TopLines ==
  { Line(0, "req", <<<<"r">>>>, <<>>),
    Line(0, "def", <<<<"X">>, <<"C">>>>, <<>>),
    Line(0, "issue", <<<<"q">>>>, <<>>),
    Line(0, "effect", <<<<"e">>>>, <<>>),
    Line(0, "claim", <<<<"A">>>>, <<>>),
    Line(0, "namespace", <<<<"N">>>>, <<>>) }
TopInputs == {Input("top", ls) : ls \in SeqsUpTo(TopLines, MaxTopLines)}

\* family "orphan": an indented first line and at most MaxOrphanLines lines
\* after it, indented at two depths or claims at column 0
MaxOrphanLines == 3
OrphanFirstLines ==
  { Line(2, "claim", <<<<"B">>>>, <<>>),
    Line(2, "def", <<<<"X">>, <<"C">>>>, <<>>) }
OrphanLines ==
  OrphanFirstLines \cup
  { Line(4, "reqOpen", <<<<"s">>>>, <<>>),
    Line(4, "def", <<<<"Y">>, <<"D">>>>, <<>>),
    Line(0, "claim", <<<<"A">>>>, <<>>) }
OrphanInputs ==
  {Input("orphan", <<first>> \o ls) :
     first \in OrphanFirstLines, ls \in SeqsUpTo(OrphanLines, MaxOrphanLines)}

\* family "corner": a claim `#A:` and at most MaxCornerLines requirements in
\* its block, written with corner brackets or with parentheses, with an
\* inline norm or without
MaxCornerLines == 2
CornerLines ==
  { Line(4, "reqJp", <<<<"r">>>>, <<>>),
    Line(4, "reqJpNorm", <<<<"r">>, <<"X">>>>, <<>>),
    Line(4, "req", <<<<"s">>>>, <<>>),
    Line(4, "reqNorm", <<<<"s">>, <<"Y">>>>, <<>>) }
CornerInputs ==
  {Input("corner", <<ClaimA>> \o ls) :
     ls \in SeqsUpTo(CornerLines, MaxCornerLines)}

\* family "effect": a claim `#A:`, a block of at most MaxEffectLines
\* requirements, the first at depth 4 and the others at depth 4 or 8, and a
\* line `>>` at column 0 after it
MaxEffectLines == 2
EffectBlockLines ==
  { Line(4, "req", <<<<"r">>>>, <<>>),
    Line(4, "reqNorm", <<<<"s">>, <<"Y">>>>, <<>>),
    Line(8, "req", <<<<"t">>>>, <<>>) }
EffectLines ==
  { Line(0, "effect", <<<<"e">>>>, <<>>),
    Line(0, "effect", <<<<SP, "d", SP, "e">>>>, <<>>) }
EffectInputs ==
  {Input("effect", <<ClaimA>> \o ls \o <<e>>) :
     ls \in {b \in SeqsUpTo(EffectBlockLines, MaxEffectLines) :
               b # <<>> /\ b[1].indent = 4},
     e \in EffectLines}

\* family "shorthand": a claim `#A:` and at most MaxShorthandLines lines of
\* norms written as requirements, with a conclusion marker, a constant or
\* an inline fact, and below them lines `<= fact` and norms of a sub-block
MaxShorthandLines == 3
ShorthandLines ==
  { Line(4, "raw", <<<<"+", "%", "X">>>>, <<>>),
    Line(4, "raw", <<<<"!", "$", "C">>>>, <<>>),
    Line(4, "raw", <<<<"%", "X", "<", "=", "f">>>>, <<>>),
    Line(4, "def", <<<<"Y">>, <<"C">>>>, <<>>),
    Line(8, "raw", <<<<"<", "=", "g">>>>, <<>>),
    Line(8, "raw", <<<<"%", "Z">>>>, <<>>) }
ShorthandInputs ==
  {Input("shorthand", <<ClaimA>> \o ls) :
     ls \in SeqsUpTo(ShorthandLines, MaxShorthandLines)}

\* family "issue": a claim `#A:`, an issue in its block and at most
\* MaxIssueLines lines after it, issues of the block (with `=>` and a norm,
\* with a reason, a conclusion marker and a norm, or the question alone) and
\* norms of their sub-blocks
MaxIssueLines == 2
IssueLines ==
  { Line(4, "issueNorm", <<<<"q">>, <<"N">>>>, <<>>),
    Line(4, "issueReason", <<<<"p">>, <<"r">>, <<"M">>>>, <<>>),
    Line(4, "issue", <<<<"o">>>>, <<>>) }
IssueSubLines ==
  { Line(8, "norm", <<<<>>, <<"Z">>>>, <<>>),
    Line(8, "norm", <<<<"+">>, <<"W">>>>, <<>>),
    Line(8, "norm", <<<<"!">>, <<"V">>>>, <<>>) }
IssueInputs ==
  {Input("issue", <<ClaimA, first>> \o ls) :
     first \in IssueLines,
     ls \in SeqsUpTo(IssueLines \cup IssueSubLines, MaxIssueLines)}

\* family "reasons": a claim `#A:` with the issue
\* `?q~>(r1 op1 ... r_{n+1})=>%N`, n at most MaxReasonOps
MaxReasonOps == 2
ReasonTexts == {<<"r">>, <<"s">>}
ReasonInputs ==
  {Input("reasons", <<ClaimA, Line(4, "issueChain", in.words, in.ops)>>) :
     in \in UNION {[words : SeqsOf(ReasonTexts, n + 1),
                    ops : SeqsOf(Operators, n)] : n \in 0..MaxReasonOps}}

\* family "define": a claim `#A:` whose block defines the constant C, with
\* a reference or with a fact before or after the `as` clause, and then
\* uses it
DefineContents == {<<"X">>, <<"Y", SP, "Z">>}
DefineLines ==
  UNION {{ Line(2, "defReference", <<x, <<"R">>, <<"C">>>>, <<>>),
           Line(2, "defReferenceFact", <<x, <<"R">>, <<"C">>>>, <<>>),
           Line(2, "defFact", <<x, <<"F">>, <<"C">>>>, <<>>),
           Line(2, "factDef", <<x, <<"F">>, <<"C">>>>, <<>>) } :
         x \in DefineContents}
DefineInputs ==
  {Input("define", <<ClaimA, d, Line(2, "ref", <<<<"C">>>>, <<>>)>>) :
     d \in DefineLines}

Inputs ==
  CharInputs \cup DraftInputs \cup ConstInputs \cup ReqInputs
    \cup NamespaceInputs \cup FactInputs \cup EvalInputs \cup IndentInputs
    \cup WidthInputs \cup TopInputs \cup OrphanInputs
    \cup CornerInputs \cup EffectInputs \cup ShorthandInputs
    \cup IssueInputs \cup ReasonInputs \cup DefineInputs

(***************************************************************************)
(* ArticleDatabaseWatcher (src/src/language/loader.ts).  Time is counted   *)
(* in milliseconds and advances TickMs at a time; the files under rootDir  *)
(* are the number `disk` of the writes made to them, and a database is the *)
(* number it was loaded at.  `events` are the notifications of the file    *)
(* system, `timers` the deadlines of the pending setTimeout callbacks in   *)
(* the order they were set, and `onChange` the calls of the callback.      *)
(***************************************************************************)
DelayMs == 100
TickMs == 50
MaxTimeMs == 200
MaxEvents == 3
MaxWatchers == 1
MaxReloads == 1

Yaml == <<"a", ".", "y", "a", "m", "l">>
Yml == <<"b", ".", "y", "m", "l">>
Txt == <<"c", ".", "t", "x", "t">>
Filenames == {Some(Yaml), Some(Yml), Some(Txt), None}

\* filename.endsWith(suffix)
endsWith(filename, suffix) ==
  /\ Len(filename) >= Len(suffix)
  /\ SubSeq(filename, Len(filename) - Len(suffix) + 1, Len(filename)) = suffix

\* loadArticleDatabase(rootDir)
loadArticleDatabase(w) == w.disk

\* new ArticleDatabaseWatcher(rootDir, onChange), rootDir existing or not
ArticleDatabaseWatcher(exists) ==
  [ exists   |-> exists,
    now      |-> 0,
    disk     |-> 0,
    events   |-> <<>>,
    watchers |-> 0,
    timers   |-> <<>>,
    database |-> 0,
    reloads  |-> 0,
    onChange |-> <<>> ]

\* `this.database = loadArticleDatabase(this.rootDir);
\*  this.onChange(this.database)`
reloadDatabase(w, by) ==
  [w EXCEPT !.database = loadArticleDatabase(w),
            !.onChange = Append(@, [database |-> loadArticleDatabase(w),
                                    by |-> by, time |-> w.now])]

\* the listener of fs.watch with the timer of an earlier notification
\* cleared before the new one is set
listenerDebounced(w, filename) ==
  IF filename # None
     /\ (endsWith(filename[1], <<".", "y", "a", "m", "l">>)
         \/ endsWith(filename[1], <<".", "y", "m", "l">>))
  THEN [w EXCEPT !.timers = <<w.now + DelayMs>>]
  ELSE w

\* the listener of fs.watch in watchDirectory
listener(w, filename) ==
  IF filename # None
     /\ (endsWith(filename[1], <<".", "y", "a", "m", "l">>)
         \/ endsWith(filename[1], <<".", "y", "m", "l">>))
  THEN [w EXCEPT !.timers = Append(@, w.now + DelayMs)]
  ELSE w

\* the listener called once for each watcher
RECURSIVE notify(_, _, _)
notify(w, filename, n) ==
  IF n = 0 THEN w ELSE notify(listener(w, filename), filename, n - 1)

\* start(): watchDirectory(rootDir)
WatcherStart ==
  /\ watcher.watchers < MaxWatchers
  /\ watcher' = IF watcher.exists
                THEN [watcher EXCEPT !.watchers = @ + 1]
                ELSE watcher
  /\ UNCHANGED <<input, source, lexer, pc, parser, docChildren, result, calls>>

\* stop()
WatcherStop ==
  /\ watcher.watchers > 0
  /\ watcher' = [watcher EXCEPT !.watchers = 0]
  /\ UNCHANGED <<input, source, lexer, pc, parser, docChildren, result, calls>>

\* a file under rootDir is written and the file system notifies the
\* watchers
FsChange ==
  /\ watcher.exists
  /\ Len(watcher.events) < MaxEvents
  /\ \E filename \in Filenames :
       watcher' =
         notify([watcher EXCEPT
                   !.disk = @ + 1,
                   !.events = Append(@, [time |-> watcher.now,
                                         filename |-> filename,
                                         watchers |-> watcher.watchers])],
                filename, watcher.watchers)
  /\ UNCHANGED <<input, source, lexer, pc, parser, docChildren, result, calls>>

\* the callback of setTimeout whose delay has passed
TimerFires ==
  /\ watcher.timers # <<>>
  /\ Head(watcher.timers) <= watcher.now
  /\ watcher' = reloadDatabase([watcher EXCEPT !.timers = Tail(@)], "timer")
  /\ UNCHANGED <<input, source, lexer, pc, parser, docChildren, result, calls>>

\* time passes when no callback is due
Tick ==
  /\ watcher.now + TickMs <= MaxTimeMs
  /\ IF watcher.timers = <<>> THEN TRUE
     ELSE Head(watcher.timers) > watcher.now
  /\ watcher' = [watcher EXCEPT !.now = @ + TickMs]
  /\ UNCHANGED <<input, source, lexer, pc, parser, docChildren, result, calls>>

\* reload()
WatcherReload ==
  /\ watcher.reloads < MaxReloads
  /\ watcher' = reloadDatabase([watcher EXCEPT !.reloads = @ + 1], "reload")
  /\ UNCHANGED <<input, source, lexer, pc, parser, docChildren, result, calls>>

WatcherInit ==
  /\ input = Input("chars", <<Line(0, "raw", <<<<>>>>, <<>>)>>)
  /\ source = Render(input)
  /\ lexer = Lexer(source)
  /\ pc = "tokenize"
  /\ parser = Parser(source)
  /\ docChildren = <<>>
  /\ result = None
  /\ calls = <<>>
  /\ \E exists \in BOOLEAN : watcher = ArticleDatabaseWatcher(exists)

WatcherNext ==
  \/ WatcherStart
  \/ WatcherStop
  \/ FsChange
  \/ TimerFires
  \/ Tick
  \/ WatcherReload

WatcherSpec == WatcherInit /\ [][WatcherNext]_vars

(***************************************************************************)
(* parse(source): tokenize, then parseDocument, one action per step of     *)
(* the two loops                                                           *)
(***************************************************************************)
Init ==
  /\ input \in Inputs
  /\ source = Render(input)
  /\ lexer = Lexer(source)
  /\ pc = "tokenize"
  /\ parser = Parser(source)
  /\ docChildren = <<>>
  /\ result = None
  /\ calls = <<>>
  /\ watcher = ArticleDatabaseWatcher(TRUE)

\* one iteration of the loop of tokenize()
ScanToken ==
  /\ pc = "tokenize"
  /\ ~lexIsAtEnd(source, lexer)
  /\ lexer' = scanToken(source, lexer)
  /\ UNCHANGED <<input, source, pc, parser, docChildren, result, calls,
               watcher>>

TokenizeEnd ==
  /\ pc = "tokenize"
  /\ lexIsAtEnd(source, lexer)
  /\ lexer' = tokenizeEnd(lexer)
  /\ pc' = "parse"
  /\ UNCHANGED <<input, source, parser, docChildren, result, calls,
               watcher>>

\* parse() up to the loop of parseDocument
ParseBegin ==
  /\ pc = "parse"
  /\ parser' = skipNewlines([parser EXCEPT !.tokens = lexer.tokens,
                                           !.errors = lexer.errors])
  /\ pc' = "document"
  /\ UNCHANGED <<input, source, lexer, docChildren, result, calls,
               watcher>>

\* where the loop of parseDocument is after an iteration that left the
\* parser p1: the code throws, or repeats the iteration for ever, or goes on
afterIteration(p0, p1) ==
  IF p1.threw THEN "threw"
  ELSE IF p1.stalled \/ ~(p1.pos > p0.pos) THEN "hung"
  ELSE "document"

InDocumentLoop == pc = "document" /\ ~isAtEnd(parser)

\* an iteration that ends with the parser r.p and the child r.node
DocumentChild(r) ==
  /\ parser' = r.p
  /\ docChildren' = Append(docChildren, r.node)
  /\ pc' = afterIteration(parser, r.p)
  /\ UNCHANGED <<input, source, lexer, result, calls,
               watcher>>

\* an iteration that ends with the parser p1 and no child
DocumentSkip(p1) ==
  /\ parser' = p1
  /\ pc' = afterIteration(parser, p1)
  /\ UNCHANGED <<input, source, lexer, docChildren, result, calls,
               watcher>>

DocNamespace ==
  /\ InDocumentLoop
  /\ check(parser, "DOUBLE_COLON")
  /\ DocumentChild(parseNamespace(parser))

DocComment ==
  /\ InDocumentLoop
  /\ check(parser, "COMMENT")
  /\ DocumentChild(parseComment(parser))

DocClaim ==
  /\ InDocumentLoop
  /\ check(parser, "HASH") \/ check(parser, "PLUS") \/ check(parser, "EXCLAIM")
  /\ DocumentChild(production("parseClaim", parser))

DocNewline ==
  /\ InDocumentLoop
  /\ check(parser, "NEWLINE")
  /\ DocumentSkip(advance(parser).p)

DocReasonStatement ==
  /\ InDocumentLoop
  /\ check(parser, "SEMICOLON")
  /\ DocumentSkip(parseReasonStatement(parser).p)

DocOrphanedIndent ==
  /\ InDocumentLoop
  /\ check(parser, "INDENT")
  /\ DocumentSkip(skipOrphanedIndentedBlock(
                    addErrorHere(parser, MsgOrphanIndent)))

\* the message for a construct that is not allowed at the top level
structuralError(type) ==
  CASE type = "LPAREN" -> MsgTopLevelRequirement
    [] type = "PERCENT" -> MsgTopLevelNorm
    [] type = "QUESTION" -> MsgTopLevelIssue
    [] type = "ARROW_RIGHT" -> MsgTopLevelEffect

DocStructuralError ==
  /\ InDocumentLoop
  /\ peek(parser).type \in {"LPAREN", "PERCENT", "QUESTION", "ARROW_RIGHT"}
  /\ DocumentSkip(skipUntilNewline(
                    addErrorHere(parser, structuralError(peek(parser).type))))

\* the last branch of parseDocument without its advance()
DocUnexpectedTokenKept ==
  /\ InDocumentLoop
  /\ peek(parser).type \notin
       {"DOUBLE_COLON", "COMMENT", "HASH", "PLUS", "EXCLAIM", "NEWLINE",
        "SEMICOLON", "INDENT", "LPAREN", "PERCENT", "QUESTION", "ARROW_RIGHT"}
  /\ DocumentSkip(addErrorHere(parser, MsgUnexpectedToken(peek(parser).type)))

\* the last branch of parseDocument without its addError
DocUnexpectedTokenSilent ==
  /\ InDocumentLoop
  /\ peek(parser).type \notin
       {"DOUBLE_COLON", "COMMENT", "HASH", "PLUS", "EXCLAIM", "NEWLINE",
        "SEMICOLON", "INDENT", "LPAREN", "PERCENT", "QUESTION", "ARROW_RIGHT"}
  /\ DocumentSkip(advance(parser).p)

DocUnexpectedToken ==
  /\ InDocumentLoop
  /\ peek(parser).type \notin
       {"DOUBLE_COLON", "COMMENT", "HASH", "PLUS", "EXCLAIM", "NEWLINE",
        "SEMICOLON", "INDENT", "LPAREN", "PERCENT", "QUESTION", "ARROW_RIGHT"}
  /\ DocumentSkip(advance(
                    addErrorHere(parser,
                                 MsgUnexpectedToken(peek(parser).type))).p)

\* the end of parseDocument and of parse()
DocEnd ==
  /\ pc = "document"
  /\ isAtEnd(parser)
  /\ result' = Some([ document |->
                        [ type      |-> "Document",
                          children  |-> docChildren,
                          constants |-> parser.constants,
                          range     |-> createRange(
                                          parser.tokens[1].range.start,
                                          peek(parser).range.end) ],
                      errors |-> parser.errors ])
  /\ pc' = "done"
  /\ UNCHANGED <<input, source, lexer, parser, docChildren, calls,
               watcher>>

Next ==
  \/ ScanToken
  \/ TokenizeEnd
  \/ ParseBegin
  \/ DocNamespace
  \/ DocComment
  \/ DocClaim
  \/ DocNewline
  \/ DocReasonStatement
  \/ DocOrphanedIndent
  \/ DocStructuralError
  \/ DocUnexpectedToken
  \/ DocEnd

Spec == Init /\ [][Next]_vars

(***************************************************************************)
(* Calls of parse() one after the other.  `calls` holds the source and the *)
(* result of each call that returned before the current one.               *)
(***************************************************************************)
\* at most MaxCalls calls, of the sources CallInputs
MaxCalls == 3
CallInputs ==
  { Input("const", <<ClaimA, Line(2, "def", <<<<"X">>, <<"C">>>>, <<>>)>>),
    Input("const", <<ClaimA, Line(2, "def", <<<<"Y">>, <<"C">>>>, <<>>),
                     Line(2, "ref", <<<<"C">>>>, <<>>)>>),
    Input("const", <<ClaimA, Line(2, "ref", <<<<"C">>>>, <<>>)>>),
    Input("const", <<ClaimA, Line(2, "ref", <<<<"C">>>>, <<>>),
                     Line(2, "def", <<<<"X">>, <<"C">>>>, <<>>)>>) }

\* parse(source) called after a call with the map of constants of that call
ParseCallSharingConstants ==
  /\ pc = "done"
  /\ input \in CallInputs
  /\ Len(calls) + 1 < MaxCalls
  /\ calls' = Append(calls, [source |-> source, result |-> result[1]])
  /\ input' \in CallInputs
  /\ source' = Render(input')
  /\ lexer' = Lexer(source')
  /\ parser' = [Parser(source') EXCEPT !.constants = parser.constants]
  /\ docChildren' = <<>>
  /\ result' = None
  /\ pc' = "tokenize"
  /\ UNCHANGED watcher

\* parse(source) called after a call that returned: a new Parser and, in
\* tokenize(source), a new Lexer
ParseCall ==
  /\ pc = "done"
  /\ input \in CallInputs
  /\ Len(calls) + 1 < MaxCalls
  /\ calls' = Append(calls, [source |-> source, result |-> result[1]])
  /\ input' \in CallInputs
  /\ source' = Render(input')
  /\ lexer' = Lexer(source')
  /\ parser' = Parser(source')
  /\ docChildren' = <<>>
  /\ result' = None
  /\ pc' = "tokenize"
  /\ UNCHANGED watcher

CallsNext ==
  \/ Next
  \/ ParseCall

CallsSpec == Init /\ [][CallsNext]_vars

(***************************************************************************)
(* Properties                                                              *)
(***************************************************************************)
\* what is left of the source for tokenize(), a natural number
LexerMeasure ==
  2 * (Len(source) - lexer.pos) + (IF lexer.atLineStart THEN 1 ELSE 0)

eofIndex == Len(parser.tokens) - 1

\* what is left of the tokens for parseDocument, a natural number
ParserMeasure == eofIndex - parser.pos

\* C1: tokenize and then parse terminate.  What is left of the source falls
\* with every scanToken() of tokenize and what is left of the tokens falls
\* with every iteration of the loop of parseDocument, neither below zero;
\* no loop run inside an iteration (the block loops, the scanning loops,
\* skipUntilNewline, skipOrphanedIndentedBlock) ends an iteration of its own
\* without moving the cursor unless it leaves the loop; and parseDocument
\* leaves its loop with the cursor on EOF.
C1_Terminates ==
  /\ [][ /\ pc = "tokenize" /\ pc' = "tokenize" => LexerMeasure' < LexerMeasure
         /\ pc = "document" /\ pc' # "done" =>
              /\ pc' = "document"
              /\ ParserMeasure' < ParserMeasure
         /\ pc' = "done" => isAtEnd(parser) /\ ParserMeasure = 0 ]_vars
  /\ [](LexerMeasure >= 0)
  /\ [](pc = "document" => ParserMeasure >= 0)
  /\ [](pc # "hung" /\ ~parser.stalled)

\* a parse that went through the loops of a claim block, of an orphaned
\* block and of skipUntilNewline, reported errors and ended
C1_Witness ==
  /\ pc = "done"
  /\ input.family = "draft"
  /\ Len(input.lines) = MaxDraftLines
  /\ Len(docChildren) >= 1
  /\ \E i \in 1..Len(parser.errors) : parser.errors[i].message = MsgOrphanIndent
  /\ \E i \in 1..Len(parser.errors) :
       parser.errors[i].message \in {MsgTopLevelRequirement, MsgTopLevelNorm,
                                     MsgTopLevelIssue, MsgTopLevelEffect}

MaxPeek == 2

\* C2: parse never throws and always returns a Document.  No property of
\* `undefined` is read and advance() never returns `undefined`; the cursor
\* is between 0 and the index of the EOF token, the last token; peek(k) is a
\* token, the final EOF when pos + k is past the end; advance() leaves the
\* cursor at or before EOF; and what parse returns is a Document with the
\* errors list of the parser.
C2_NeverThrows ==
  /\ pc # "threw"
  /\ ~parser.threw
  /\ ~parser.undefinedReturned
  /\ pc \in {"document", "done"} =>
       /\ parser.tokens[Len(parser.tokens)].type = "EOF"
       /\ 0 <= parser.pos /\ parser.pos <= eofIndex
       /\ \A k \in 0..MaxPeek :
            /\ peekAt(parser, k) # None
            /\ parser.pos + k >= eofIndex => peekAt(parser, k)[1].type = "EOF"
       /\ advance(parser).p.pos <= eofIndex
       /\ isAtEnd(parser) => advance(parser).p.pos = parser.pos
  /\ pc = "done" =>
       /\ result # None
       /\ result[1].document.type = "Document"
       /\ result[1].document.children = docChildren
       /\ result[1].errors = parser.errors

\* a parse that called advance() with the cursor on EOF, after a `&` that
\* ends the source inside the reasons of an issue, and returned
C2_Witness ==
  /\ pc = "done"
  /\ Len(parser.tokens) >= 3
  /\ parser.tokens[Len(parser.tokens) - 1].type = "AND"
  /\ \E i \in 1..Len(parser.tokens) : parser.tokens[i].type = "TILDE_ARROW"
  /\ Len(docChildren) = 1
  /\ docChildren[1].type = "Claim"
  /\ Len(docChildren[1].requirements) = 1
  /\ docChildren[1].requirements[1].issue # None
  /\ parser.errors # <<>>

IsPrefix(s, t) == Len(s) <= Len(t) /\ SubSeq(t, 1, Len(s)) = s

parsing == pc \in {"document", "done"}

\* C3: in the errors list of parse the lexer errors come first, with the
\* message and range the lexer gave them and in lexing order, and the
\* parser errors follow in the order the parser met them: each list only
\* grows at its end, the parser's list starts as the lexer's, none of the
\* entries after those is a lexer error, and parse returns that list.
C3_ErrorOrder ==
  /\ [][ /\ IsPrefix(lexer.errors, lexer'.errors)
         /\ IsPrefix(parser.errors, parser'.errors) ]_vars
  /\ [](parsing =>
          /\ IsPrefix(lexer.errors, parser.errors)
          /\ \A i \in (Len(lexer.errors) + 1)..Len(parser.errors) :
               parser.errors[i].message[1] # "unexpected character")
  /\ [](pc = "done" => result[1].errors = parser.errors)

\* a parse that returned one lexer error and two parser errors, the first
\* of them for a token that is before the character the lexer rejected
C3_Witness ==
  /\ pc = "done"
  /\ Len(lexer.errors) = 1
  /\ Len(result[1].errors) = 3
  /\ result[1].errors[2].range.start.offset
       < lexer.errors[1].range.start.offset
  /\ lexer.errors[1].range.start.offset
       < result[1].errors[3].range.start.offset

(***************************************************************************)
(* What the lines of an input say the tree is                              *)
(***************************************************************************)
\* the indices of the lines of `lines` that satisfy Test, ascending
Ascending(S) ==
  [k \in 1..Cardinality(S) |->
     CHOOSE i \in S : Cardinality({j \in S : j < i}) = k - 1]

Indices(lines, Test(_)) == Ascending({i \in 1..Len(lines) : Test(lines[i])})

Max(S) == CHOOSE x \in S : \A y \in S : y <= x

\* the position of the first character of the text of line i: lines and
\* columns count from 0, offsets count characters
TextPosition(lines, i) ==
  [ line   |-> i - 1,
    column |-> lines[i].indent,
    offset |-> Len(RenderLines(SubSeq(lines, 1, i))) - Len(LineText(lines[i])) ]

RECURSIVE Concat(_)
Concat(seqs) == IF seqs = <<>> THEN <<>> ELSE seqs[1] \o Concat(Tail(seqs))

\* requirements with the requirements below them, in source order
RECURSIVE FlattenRequirements(_)
FlattenRequirements(reqs) ==
  Concat([i \in 1..Len(reqs) |->
            <<reqs[i]>> \o (IF reqs[i].subRequirements = None THEN <<>>
                            ELSE FlattenRequirements(
                                   reqs[i].subRequirements[1]))])

\* the requirements of the claims `nodes`, in source order
AllRequirements(nodes) ==
  Concat([i \in 1..Len(nodes) |->
            IF nodes[i].type = "Claim"
            THEN FlattenRequirements(nodes[i].requirements) ELSE <<>>])

errorsWhere(Test(_)) == {e \in 1..Len(parser.errors) : Test(parser.errors[e])}

isUndefinedConstantError(e) == e.message[1] = "constant not defined"

(***************************************************************************)
(* Constants                                                               *)
(***************************************************************************)
isReference(l) == l.kind \in {"ref", "refFact"}
isBlockLine(l) == l.kind # "claimBlock"

\* the lines above line i that define the constant line i refers to
PriorDefinitions(lines, i) ==
  {j \in 1..(i - 1) :
     lines[j].kind = "def" /\ lines[j].words[2] = lines[i].words[1]}

\* the lines that define the constant `name`
Definitions(lines, name) ==
  {j \in 1..Len(lines) : lines[j].kind = "def" /\ lines[j].words[2] = name}

\* one requirement for each line of the blocks, in order
ConstFamilyParsed ==
  /\ pc = "done"
  /\ input.family = "const"
  /\ \A i \in 1..Len(docChildren) : docChildren[i].type = "Claim"
  /\ Len(AllRequirements(docChildren))
       = Len(Indices(input.lines, isBlockLine))

\* C4: `$C` in a claim block resolves to the content of the last `%X as C`
\* parsed before it.  For every line `$C` of the blocks below a line
\* `%X as C`, the Norm of its requirement has the content X of the last
\* such line above it, whatever the lines after it define, and no
\* 'constant not defined' error is at that line.
C4_ConstantResolved ==
  pc = "done" /\ input.family = "const" =>
    /\ ConstFamilyParsed
    /\ \A k \in 1..Len(Indices(input.lines, isBlockLine)) :
         LET i == Indices(input.lines, isBlockLine)[k]
             norm == AllRequirements(docChildren)[k].norm
         IN  isReference(input.lines[i])
               /\ PriorDefinitions(input.lines, i) # {} =>
               /\ norm # None
               /\ norm[1].content
                    = input.lines[Max(PriorDefinitions(input.lines, i))].words[1]
               /\ errorsWhere(LAMBDA e : /\ isUndefinedConstantError(e)
                                         /\ e.range.start.line = i - 1) = {}

\* `%X as C`, then `$C`, then `%Y as C`: the reference is parsed between
\* two definitions of its constant
C4_Witness ==
  /\ ConstFamilyParsed
  /\ Len(input.lines) = 4
  /\ input.lines[2].kind = "def" /\ input.lines[2].words = <<<<"X">>, <<"C">>>>
  /\ input.lines[3].kind = "ref"
  /\ input.lines[4].kind = "def" /\ input.lines[4].words = <<<<"Y">>, <<"C">>>>
  /\ AllRequirements(docChildren)[2].norm[1].content = <<"X">>
  /\ parser.constants[<<"C">>].value.content = <<"Y">>

\* C5: `$C` parsed when no `as C` has been parsed adds exactly one
\* 'constant not defined' error and still yields a Norm.  For every line
\* `$C` of the blocks with no line `%X as C` above it, one error naming C
\* is at that line, the Norm of its requirement has the name C as content,
\* no reference, and constantReference C, and the fact of `<= fact` on the
\* line when there is one; no other such error is reported.
C5_ConstantUndefined ==
  pc = "done" /\ input.family = "const" =>
    /\ ConstFamilyParsed
    /\ \A k \in 1..Len(Indices(input.lines, isBlockLine)) :
         LET i == Indices(input.lines, isBlockLine)[k]
             l == input.lines[i]
             norm == AllRequirements(docChildren)[k].norm
         IN  isReference(l) /\ PriorDefinitions(input.lines, i) = {} =>
               /\ Cardinality(errorsWhere(
                    LAMBDA e : /\ e.message = MsgUndefinedConstant(l.words[1])
                               /\ e.range.start.line = i - 1)) = 1
               /\ norm # None
               /\ norm[1].content = l.words[1]
               /\ norm[1].reference = None
               /\ norm[1].constantReference = Some(l.words[1])
               /\ l.kind = "ref" => norm[1].fact = None
               /\ l.kind = "refFact" =>
                    /\ norm[1].fact # None
                    /\ norm[1].fact[1].content = l.words[2]
    /\ Cardinality(errorsWhere(isUndefinedConstantError))
         = Cardinality({i \in 1..Len(input.lines) :
                          /\ isReference(input.lines[i])
                          /\ PriorDefinitions(input.lines, i) = {}})

\* `$C<=f`, then `%X as C`: the definition comes after the reference
C5_Witness ==
  /\ ConstFamilyParsed
  /\ Len(input.lines) >= 3
  /\ input.lines[2].kind = "refFact"
  /\ input.lines[3].kind = "def" /\ input.lines[3].words[2] = <<"C">>
  /\ Len(parser.errors) = 1
  /\ parser.errors[1].message = MsgUndefinedConstant(<<"C">>)
  /\ AllRequirements(docChildren)[1].norm[1].fact[1].content = <<"f">>
  /\ <<"C">> \in DOMAIN parser.constants

\* the Norm nodes of a tree
RECURSIVE NormsOfRequirements(_)
RECURSIVE NormsOfNorm(_)
NormsOfNorm(norm) ==
  {norm}
    \cup (IF norm.subNorm = None THEN {} ELSE NormsOfNorm(norm.subNorm[1]))
    \cup (IF norm.subRequirements = None THEN {}
          ELSE NormsOfRequirements(norm.subRequirements[1]))

NormsOfRequirements(reqs) ==
  UNION {(IF reqs[i].norm = None THEN {} ELSE NormsOfNorm(reqs[i].norm[1]))
           \cup (IF reqs[i].issue = None THEN {}
                 ELSE NormsOfNorm(reqs[i].issue[1].norm))
           \cup (IF reqs[i].subRequirements = None THEN {}
                 ELSE NormsOfRequirements(reqs[i].subRequirements[1])) :
         i \in 1..Len(reqs)}

NormsOfClaims(nodes) ==
  UNION {IF nodes[i].type = "Claim"
         THEN NormsOfRequirements(nodes[i].requirements) ELSE {} :
         i \in 1..Len(nodes)}

NormsOfDocument(nodes) ==
  NormsOfClaims(nodes)
    \cup UNION {IF nodes[i].type = "Namespace"
                THEN NormsOfClaims(nodes[i].children) ELSE {} :
                i \in 1..Len(nodes)}

\* C6: the keys of the constants map only grow during a parse; the entry
\* of a name defined several times is the last definition parsed; every
\* Norm of the tree with a constantDefinition n has an entry n in
\* document.constants.
C6_ConstantsGrow ==
  /\ [][DOMAIN parser.constants \subseteq DOMAIN parser'.constants]_vars
  /\ [](parsing =>
          \A norm \in NormsOfDocument(docChildren) :
            norm.constantDefinition # None =>
              norm.constantDefinition[1] \in DOMAIN parser.constants)
  /\ [](pc = "done" => result[1].document.constants = parser.constants)
  /\ [](pc = "done" /\ input.family = "const" =>
          /\ DOMAIN parser.constants
               = {input.lines[i].words[2] :
                    i \in {j \in 1..Len(input.lines) :
                             input.lines[j].kind = "def"}}
          /\ \A name \in DOMAIN parser.constants :
               /\ parser.constants[name].name = name
               /\ parser.constants[name].value.content
                    = input.lines[Max(Definitions(input.lines, name))].words[1])

\* `%X as C` in one claim and `%Y as C` in the next: the entry of C that the
\* first step of parseDocument made was replaced by the second
C6_Witness ==
  /\ ConstFamilyParsed
  /\ Len(docChildren) = 2
  /\ Len(docChildren[1].requirements) = 1
  /\ docChildren[1].requirements[1].norm[1].constantDefinition = Some(<<"C">>)
  /\ docChildren[1].requirements[1].norm[1].content = <<"X">>
  /\ Len(docChildren[2].requirements) = 1
  /\ docChildren[2].requirements[1].norm[1].constantDefinition = Some(<<"C">>)
  /\ DOMAIN parser.constants = {<<"C">>}
  /\ parser.constants[<<"C">>].value.content = <<"Y">>

(***************************************************************************)
(* Requirement blocks                                                      *)
(***************************************************************************)
\* the lines of `lines` that hold a requirement, and the claims `#B`
BlockLines(lines) ==
  {i \in 1..Len(lines) : lines[i].kind \in {"req", "reqOpen"}}
OpenLines(lines) == {i \in 1..Len(lines) : lines[i].kind = "reqOpen"}
ClaimLines(lines) == {i \in 1..Len(lines) : lines[i].kind = "claim"}

\* `#A:`, its block of requirements starting at the depth of the block, then
\* claims at column 0
WellFormedBlock(lines) ==
  /\ \A i \in BlockLines(lines), j \in ClaimLines(lines) : i < j
  /\ BlockLines(lines) # {} => lines[2].indent = 4

ReqFamilyParsed ==
  /\ pc = "done"
  /\ input.family = "req"
  /\ WellFormedBlock(input.lines)

\* C7: a requirement `(name` that meets NEWLINE or EOF before its `)` adds
\* exactly one error, whose range starts at the `(`; the name is the text
\* scanned, without the NEWLINE; the Requirement is produced all the same
\* and the lines that follow are parsed: one Requirement per line of the
\* block, in order, and one Claim per `#B`
C7_UnclosedRequirement ==
  ReqFamilyParsed =>
    LET lines == input.lines
        open  == Ascending(OpenLines(lines))
        block == Ascending(BlockLines(lines))
        reqs  == AllRequirements(docChildren)
    IN  /\ Len(parser.errors) = Len(open)
        /\ \A k \in 1..Len(open) :
             /\ parser.errors[k].message = MsgUnclosedParen
             /\ parser.errors[k].range.start = TextPosition(lines, open[k])
        /\ Len(reqs) = Len(block)
        /\ \A k \in 1..Len(block) : reqs[k].name = lines[block[k]].words[1]
        /\ Len(docChildren) = 1 + Cardinality(ClaimLines(lines))
        /\ \A k \in 2..Len(docChildren) :
             /\ docChildren[k].type = "Claim"
             /\ docChildren[k].name = <<"B">>

\* `#A:` / `    (r2` / `    (r)` / `#B`: the error of line 2 starts at its
\* `(`, line 3 and line 4 are parsed
C7_Witness ==
  /\ ReqFamilyParsed
  /\ Len(input.lines) = 4
  /\ input.lines[2].kind = "reqOpen"
  /\ input.lines[3].kind = "req"
  /\ input.lines[4].kind = "claim"
  /\ Len(parser.errors) = 1
  /\ parser.errors[1].range.start = [line |-> 1, column |-> 4, offset |-> 8]
  /\ Len(docChildren) = 2
  /\ Len(docChildren[1].requirements) = 2
  /\ docChildren[1].requirements[1].name = <<"r", "2">>
  /\ docChildren[1].requirements[2].name = <<"r">>

\* the number of tokens of type `type` among the first n tokens
CountTokens(tokens, n, type) ==
  Cardinality({i \in 1..n : tokens[i].type = type})

\* the index of the k-th token of type `type`
TokenIndex(tokens, type, k) ==
  Ascending({i \in 1..Len(tokens) : tokens[i].type = type})[k]

\* a source of the family "req" with a block of closed requirements and a
\* claim `#B` after it
ClosedBlockParsed ==
  /\ ReqFamilyParsed
  /\ OpenLines(input.lines) = {}
  /\ BlockLines(input.lines) # {}
  /\ ClaimLines(input.lines) # {}

\* C8: when a line at column 0 follows the indented block of a claim, the
\* lexer has emitted, before the tokens of that line, a DEDENT for each
\* INDENT of the block; the requirements of the block belong to the first
\* claim, the claim at column 0 is the next child of the Document, and no
\* error is reported
C8_DedentClosesBlock ==
  ClosedBlockParsed =>
    LET lines == input.lines
        hashB == TokenIndex(lexer.tokens, "HASH", 2)
    IN  /\ CountTokens(lexer.tokens, hashB, "INDENT") >= 1
        /\ CountTokens(lexer.tokens, hashB, "INDENT")
             = CountTokens(lexer.tokens, hashB, "DEDENT")
        /\ lexer.tokens[hashB - 1].type = "DEDENT"
        /\ parser.errors = <<>>
        /\ Len(docChildren) = 1 + Cardinality(ClaimLines(lines))
        /\ Len(docChildren[1].requirements)
             = Cardinality({i \in BlockLines(lines) : lines[i].indent = 4})
        /\ Len(FlattenRequirements(docChildren[1].requirements))
             = Cardinality(BlockLines(lines))
        /\ docChildren[2].type = "Claim"
        /\ docChildren[2].name = <<"B">>
        /\ docChildren[2].requirements = <<>>

\* `#A:` / `    (r)` / `#B`
C8_Witness ==
  /\ ClosedBlockParsed
  /\ Len(input.lines) = 3
  /\ [i \in 1..Len(lexer.tokens) |-> lexer.tokens[i].type]
       = <<"HASH", "TEXT", "COLON", "NEWLINE", "INDENT", "LPAREN", "TEXT",
           "RPAREN", "NEWLINE", "DEDENT", "HASH", "TEXT", "EOF">>
  /\ Len(docChildren) = 2
  /\ Len(docChildren[1].requirements) = 1
  /\ docChildren[2].name = <<"B">>

(***************************************************************************)
(* Namespaces                                                              *)
(***************************************************************************)
\* the lines of the block of `::N`: claims and comments at its depth, and
\* requirements only below a claim `#D:`
WellFormedNamespace(lines) ==
  \A i \in 2..Len(lines) :
    /\ lines[i].kind # "namespace"
    /\ lines[i].kind = "req" => lines[i - 1].kind \in {"claimBlock", "req"}

NamespaceFamilyParsed ==
  /\ pc = "done"
  /\ input.family = "namespace"
  /\ WellFormedNamespace(input.lines)

\* the node that a line of the block of a namespace stands for
IsNodeOfLine(node, line) ==
  IF line.kind = "comment"
  THEN node.type = "Comment" /\ node.text = line.words[1]
  ELSE node.type = "Claim" /\ node.name = line.words[1]

NamespacesOf(nodes) ==
  {nodes[i] : i \in {j \in 1..Len(nodes) : nodes[j].type = "Namespace"}}

\* C9: `::name` followed by an indented block gives one Namespace child of
\* the Document, named by the text after `::`, whose children are the
\* claims and comments of the block in source order; and for any source the
\* children of a Namespace are Claim and Comment nodes, never a Namespace
C9_NamespaceChildren ==
  /\ \A ns \in NamespacesOf(docChildren) :
       \A i \in 1..Len(ns.children) :
         ns.children[i].type \in {"Claim", "Comment"}
  /\ NamespaceFamilyParsed =>
       LET lines == input.lines
           block == Ascending({i \in 2..Len(lines) : lines[i].indent = 2})
       IN  /\ parser.errors = <<>>
           /\ Len(docChildren) = 1
           /\ docChildren[1].type = "Namespace"
           /\ docChildren[1].name = <<"N">>
           /\ Len(docChildren[1].children) = Len(block)
           /\ \A k \in 1..Len(block) :
                IsNodeOfLine(docChildren[1].children[k], lines[block[k]])

\* `::N` / `  #A` / `  //c` / `  +#B<=f`
C9_Witness ==
  /\ NamespaceFamilyParsed
  /\ Len(docChildren) = 1
  /\ docChildren[1].type = "Namespace"
  /\ Len(docChildren[1].children) = 3
  /\ docChildren[1].children[1].type = "Claim"
  /\ docChildren[1].children[1].name = <<"A">>
  /\ docChildren[1].children[2].type = "Comment"
  /\ docChildren[1].children[3].type = "Claim"
  /\ docChildren[1].children[3].name = <<"B">>

(***************************************************************************)
(* Compound facts                                                          *)
(***************************************************************************)
OperatorKind(op) == IF op = "&" THEN "and" ELSE "or"

\* the Fact that the operand `word` of the family "fact" stands for
IsFactOfOperand(fact, word) ==
  IF Len(word) = 1
  THEN /\ fact.content = word
       /\ fact.children = None
       /\ fact.operator = "undefined"
  ELSE /\ fact.content = <<>>
       /\ fact.operator = "or"
       /\ fact.children # None
       /\ Len(fact.children[1]) = 2
       /\ fact.children[1][1].content = <<"g">>
       /\ fact.children[1][2].content = <<"h">>

FactFamilyParsed ==
  /\ pc = "done"
  /\ input.family = "fact"

\* C10: a compound fact `(f1 op1 f2 ... opn f_{n+1})` is a Fact with n + 1
\* children in source order; its operator is the kind of the last operator
\* token, whatever the earlier ones were, and is absent when n = 0
C10_CompoundFact ==
  FactFamilyParsed =>
    LET line == input.lines[1]
        fact == docChildren[1].fact[1]
    IN  /\ parser.errors = <<>>
        /\ Len(docChildren) = 1
        /\ docChildren[1].fact # None
        /\ fact.content = <<>>
        /\ fact.children # None
        /\ Len(fact.children[1]) = Len(line.ops) + 1
        /\ \A k \in 1..Len(line.words) :
             IsFactOfOperand(fact.children[1][k], line.words[k])
        /\ fact.operator = IF line.ops = <<>> THEN "undefined"
                           ELSE OperatorKind(line.ops[Len(line.ops)])

\* `#A<=(f&g|f)`: three children and the operator of the last token
C10_Witness ==
  /\ FactFamilyParsed
  /\ input.lines[1].ops = <<"&", "|">>
  /\ input.lines[1].words = << <<"f">>, <<"g">>, <<"f">> >>
  /\ docChildren[1].fact[1].operator = "or"
  /\ Len(docChildren[1].fact[1].children[1]) = 3

(***************************************************************************)
(* Evaluations                                                             *)
(***************************************************************************)
EvalFamilyParsed ==
  /\ pc = "done"
  /\ input.family = "eval"

\* C11: a flat fact with k >= 1 markers `@` keeps the Evaluation that the
\* first `@` starts, whose content is the text up to the next stop token
\* (the second `@` included); the later evaluations are dropped, and the
\* content of the fact is the text before the first `@`
C11_FirstEvaluation ==
  EvalFamilyParsed =>
    LET words == input.lines[1].words
        fact  == docChildren[1].fact[1]
    IN  /\ parser.errors = <<>>
        /\ Len(docChildren) = 1
        /\ docChildren[1].fact # None
        /\ fact.content = words[1]
        /\ fact.children = None
        /\ Len(words) = 1 => fact.evaluation = None
        /\ Len(words) > 1 =>
             /\ fact.evaluation # None
             /\ fact.evaluation[1].type = "Evaluation"
             /\ fact.evaluation[1].content = words[2]

\* `#A<=f@e@d e`: two evaluations, the first one kept
C11_Witness ==
  /\ EvalFamilyParsed
  /\ input.lines[1].words = << <<"f">>, <<"e">>, <<"d", SP, "e">> >>
  /\ docChildren[1].fact[1].content = <<"f">>
  /\ docChildren[1].fact[1].evaluation[1].content = <<"e">>

(***************************************************************************)
(* Calls                                                                   *)
(***************************************************************************)
\* the source `#A:` / `  $C`, which defines no constant
RefersOnly == Render(Input("const",
                 <<ClaimA, Line(2, "ref", <<<<"C">>>>, <<>>)>>))

\* C12: parse is a function of its source: a call returns what every
\* earlier call on the same source returned (document, errors and map of
\* constants), whatever was parsed in between, and a constant that an
\* earlier call defined is not defined in a later call
C12_Deterministic ==
  /\ \A i, j \in 1..Len(calls) :
       calls[i].source = calls[j].source => calls[i].result = calls[j].result
  /\ pc = "done" =>
       \A i \in 1..Len(calls) :
         calls[i].source = source => calls[i].result = result[1]
  /\ pc = "done" /\ source = RefersOnly =>
       /\ Len(parser.errors) = 1
       /\ parser.errors[1].message = MsgUndefinedConstant(<<"C">>)
       /\ DOMAIN result[1].document.constants = {}
       /\ docChildren[1].requirements[1].norm[1].content = <<"C">>

\* three calls: `$C` alone, then a source that defines C, then `$C` alone
\* again, with the result of the first call
C12_Witness ==
  /\ pc = "done"
  /\ Len(calls) = 2
  /\ calls[1].source = RefersOnly
  /\ DOMAIN calls[2].result.document.constants = {<<"C">>}
  /\ source = RefersOnly
  /\ result[1] = calls[1].result
  /\ Len(result[1].errors) = 1

(***************************************************************************)
(* expect                                                                  *)
(***************************************************************************)
\* the calls of expect in the parser: the type expected and the message
ExpectCalls ==
  { <<"HASH", MsgClaimNeedsHash>>,
    <<"RPAREN", MsgNeedsRParen>>,
    <<"LPAREN", MsgRequirementNeedsLParen>>,
    <<"PERCENT", MsgNormNeedsPercent>>,
    <<"QUESTION", MsgIssueNeedsQuestion>>,
    <<"IMPLIES", MsgIssueNeedsImplies>>,
    <<"ARROW_RIGHT", MsgEffectNeedsArrow>> }

\* the parser with its cursor on the token of index pos
ParserAt(pos) == [parser EXCEPT !.pos = pos]

\* C13: expect(type, msg) on a token of the type expected moves the cursor
\* by exactly one token and adds no error; on any other token it appends
\* exactly one error, with msg and the range of the current token, leaves
\* the cursor where it is and returns the current token.  For every token
\* array the lexer gives, every position of the cursor in it and every
\* call of expect the parser makes
C13_Expect ==
  pc \in {"document", "done"} =>
    \A pos \in 0..eofIndex : \A call \in ExpectCalls :
      LET p == ParserAt(pos)
          e == expect(p, call[1], call[2])
      IN  IF peek(p).type = call[1]
          THEN /\ e.p.pos = p.pos + 1
               /\ e.p.errors = p.errors
               /\ e.token = peek(p)
          ELSE /\ e.p.pos = p.pos
               /\ e.p.errors
                    = Append(p.errors, [ message |-> call[2],
                                         range   |-> peek(p).range ])
               /\ e.token = peek(p)
               /\ e.p.tokens = p.tokens
               /\ e.p.constants = p.constants

\* `#A<=(f&`: the compound fact ended at EOF, where expect(RPAREN) added
\* its error with the range of EOF and the cursor stayed; the `(` before
\* is a token that expect(LPAREN) matches
C13_Witness ==
  /\ pc = "done"
  /\ \E i \in 1..Len(parser.errors) :
       /\ parser.errors[i].message = MsgNeedsRParen
       /\ parser.errors[i].range = parser.tokens[Len(parser.tokens)].range
  /\ \E pos \in 0..eofIndex :
       /\ peek(ParserAt(pos)).type = "LPAREN"
       /\ expect(ParserAt(pos), "LPAREN", MsgRequirementNeedsLParen).p.pos
            = pos + 1

(***************************************************************************)
(* Indentation                                                             *)
(***************************************************************************)
IndentChars == {SP, TAB, IDSP}

\* the offset of the first character at or after `pos` that is not one of
\* indentation
RECURSIVE IndentEnd(_, _)
IndentEnd(src, pos) ==
  IF pos < Len(src) /\ src[pos + 1] \in IndentChars
  THEN IndentEnd(src, pos + 1) ELSE pos

RECURSIVE WidthOf(_)
WidthOf(chars) ==
  IF chars = <<>> THEN 0
  ELSE (CASE Head(chars) = SP -> 1
          [] Head(chars) = TAB -> 4
          [] Head(chars) = IDSP -> 2) + WidthOf(Tail(chars))

\* tokenize() is about to call scanToken() at the start of a line
AtLineStart == pc = "tokenize" /\ lexer.atLineStart /\ ~lexIsAtEnd(source, lexer)

\* the width of the indentation of the line that starts at the lexer's
\* position, and what follows the indentation
LineWidth ==
  WidthOf(SubSeq(source, lexer.pos + 1, IndentEnd(source, lexer.pos)))
Remainder ==
  SubSeq(source, IndentEnd(source, lexer.pos) + 1, Len(source))

BlankLine == Remainder = <<>> \/ Head(Remainder) \in {NL, CR}
CommentLine ==
  Len(Remainder) >= 2 /\ Remainder[1] = "/" /\ Remainder[2] = "/"

Top(stack) == stack[Len(stack)]

\* the types of the tokens that the step adds
Emitted ==
  [i \in 1..(Len(lexer'.tokens) - Len(lexer.tokens)) |->
     lexer'.tokens[Len(lexer.tokens) + i].type]

\* C14: a line with nothing, or only a newline, after its indentation
\* leaves the indent stack as it is and gives no INDENT and no DEDENT,
\* wherever it is in the source, the last line without a newline included;
\* a line with only a comment updates the stack
C14_BlankLines ==
  [][ /\ AtLineStart /\ BlankLine =>
           /\ lexer'.indentStack = lexer.indentStack
           /\ Emitted = <<>>
      /\ AtLineStart /\ CommentLine /\ LineWidth # Top(lexer.indentStack) =>
           /\ lexer'.indentStack # lexer.indentStack
           /\ Emitted # <<>> ]_vars

\* `stack` after the pops that leave no entry above `width`
PopWhile(stack, width) ==
  SubSeq(stack, 1, Cardinality({i \in 1..Len(stack) : stack[i] <= width}))

\* C15: at the start of a non-blank line the width is 1 for each space, 4
\* for each tab and 2 for each U+3000 of the indentation.  Greater than the
\* top of the indent stack: it is pushed and exactly one INDENT is emitted;
\* smaller: the stack is popped while its top exceeds the width, one DEDENT
\* for each pop; equal: nothing is emitted and the stack is unchanged
C15_IndentWidth ==
  [][ AtLineStart /\ ~BlankLine =>
        LET stack == lexer.indentStack
        IN  /\ LineWidth > Top(stack) =>
                 /\ lexer'.indentStack = Append(stack, LineWidth)
                 /\ Emitted = <<"INDENT">>
            /\ LineWidth < Top(stack) =>
                 /\ lexer'.indentStack = PopWhile(stack, LineWidth)
                 /\ Len(lexer'.indentStack) < Len(stack)
                 /\ Emitted = [i \in 1..(Len(stack) - Len(lexer'.indentStack))
                                 |-> "DEDENT"]
            /\ LineWidth = Top(stack) =>
                 /\ lexer'.indentStack = stack
                 /\ Emitted = <<>> ]_vars

\* ` a` / `<tab>a` / `a`: INDENT for the width 1, INDENT for the width 4
\* of the tab, and at the third line one DEDENT for each of the two levels
C15_Witness ==
  /\ pc = "tokenize"
  /\ source = <<SP, "a", NL, TAB, "a", NL, "a">>
  /\ lexer.indentStack = <<0>>
  /\ [i \in 1..Len(lexer.tokens) |-> lexer.tokens[i].type]
       = <<"INDENT", "TEXT", "NEWLINE", "INDENT", "TEXT", "NEWLINE",
           "DEDENT", "DEDENT">>

\* C16: while tokenize() runs, the INDENT tokens emitted are as many more
\* than the DEDENT tokens as there are levels above the base of the indent
\* stack, so no prefix of the tokens has more DEDENT than INDENT; when it
\* returns, every level was popped with one DEDENT, the tokens hold as many
\* INDENT as DEDENT, and EOF is the last token and no other
C16_IndentBalance ==
  /\ pc = "tokenize" =>
       CountTokens(lexer.tokens, Len(lexer.tokens), "INDENT")
         - CountTokens(lexer.tokens, Len(lexer.tokens), "DEDENT")
         = Len(lexer.indentStack) - 1
  /\ \A n \in 0..Len(lexer.tokens) :
       CountTokens(lexer.tokens, n, "DEDENT")
         <= CountTokens(lexer.tokens, n, "INDENT")
  /\ pc = "tokenize" => CountTokens(lexer.tokens, Len(lexer.tokens), "EOF") = 0
  /\ pc # "tokenize" =>
       /\ lexer.indentStack = <<0>>
       /\ CountTokens(lexer.tokens, Len(lexer.tokens), "INDENT")
            = CountTokens(lexer.tokens, Len(lexer.tokens), "DEDENT")
       /\ CountTokens(lexer.tokens, Len(lexer.tokens), "EOF") = 1
       /\ lexer.tokens[Len(lexer.tokens)].type = "EOF"

\* ` a` / `  a`: the source ends two levels deep and tokenize() closes both
C16_Witness ==
  /\ pc = "parse"
  /\ source = <<SP, "a", NL, SP, SP, "a">>
  /\ [i \in 1..Len(lexer.tokens) |-> lexer.tokens[i].type]
       = <<"INDENT", "TEXT", "NEWLINE", "INDENT", "TEXT",
           "DEDENT", "DEDENT", "EOF">>

(***************************************************************************)
(* Full-width operators                                                    *)
(***************************************************************************)
\* the full-width form of a character, the character itself when it has none
FullWidth(char) ==
  CASE char = "#" -> FwHash
    [] char = ":" -> FwColon
    [] char = "?" -> FwQuestion
    [] char = "%" -> FwPercent
    [] char = "@" -> FwAt
    [] char = ";" -> FwSemicolon
    [] char = "&" -> FwAmp
    [] char = "|" -> FwBar
    [] char = "+" -> FwPlus
    [] char = "!" -> FwExclaim
    [] char = "(" -> FwLParen
    [] char = ")" -> FwRParen
    [] char = "*" -> FwAsterisk
    [] char = "$" -> FwDollar
    [] OTHER -> char

OperatorTypes ==
  {"HASH", "COLON", "DOUBLE_COLON", "QUESTION", "PERCENT", "AT", "SEMICOLON",
   "AND", "OR", "PLUS", "EXCLAIM", "LPAREN", "RPAREN", "ASTERISK", "DOLLAR"}

\* `src` with the characters of the operator `token` in their full-width form
ReplaceOperator(src, token) ==
  [i \in 1..Len(src) |->
     IF token.range.start.offset < i /\ i <= token.range.end.offset
     THEN FullWidth(src[i]) ELSE src[i]]

TokenTypes(tokens) == [i \in 1..Len(tokens) |-> tokens[i].type]

\* the token is an operator written in the ASCII characters that have a
\* full-width form (the escape `\&`, also an AND, is not)
IsAsciiOperator(token) ==
  /\ token.type \in OperatorTypes
  /\ \A i \in 1..Len(token.value) : FullWidth(token.value[i]) # token.value[i]

\* C17: writing an operator of the source in its full-width form gives
\* tokens of the same types in the same order, whatever the source is
C17_FullWidthOperators ==
  pc = "parse" =>
    \A k \in 1..Len(lexer.tokens) :
      IsAsciiOperator(lexer.tokens[k]) =>
        TokenTypes(tokenize(ReplaceOperator(source, lexer.tokens[k])).tokens)
          = TokenTypes(lexer.tokens)

(***************************************************************************)
(* Structural errors at the top level                                      *)
(***************************************************************************)
\* the index of the token after the first NEWLINE at or after the token of
\* index pos, the index of EOF when there is none
AfterNewline(tokens, pos) ==
  LET newlines == {j \in pos..(Len(tokens) - 1) : tokens[j + 1].type = "NEWLINE"}
  IN  IF newlines = {} THEN Len(tokens) - 1
      ELSE (CHOOSE j \in newlines : \A k \in newlines : j <= k) + 1

\* parseDocument is about to dispatch on a token that belongs inside a claim
AtStructuralError ==
  /\ pc = "document"
  /\ ~isAtEnd(parser)
  /\ peek(parser).type \in {"LPAREN", "PERCENT", "QUESTION", "ARROW_RIGHT"}

\* the lines of the family "top" that parseDocument meets with a `(`, `%`,
\* `?` or `>>`: an effect on the line after a claim is the claim's
IsOffending(lines, i) ==
  \/ lines[i].kind \in {"req", "def", "issue"}
  \/ /\ lines[i].kind = "effect"
     /\ ~(i > 1 /\ lines[i - 1].kind = "claim")

TopFamilyParsed ==
  /\ pc = "done"
  /\ input.family = "top"

\* C18: on `(`, `%`, `?` or `>>` at document scope parseDocument adds
\* exactly one error, goes past the next NEWLINE (or to EOF) and adds no
\* child; the claims and namespaces of the other lines are parsed as if the
\* line were not there
C18_StructuralError ==
  /\ [][ AtStructuralError =>
           /\ Len(parser'.errors) = Len(parser.errors) + 1
           /\ IsPrefix(parser.errors, parser'.errors)
           /\ parser'.errors[Len(parser'.errors)].range = peek(parser).range
           /\ parser'.errors[Len(parser'.errors)].message
                \in {MsgTopLevelRequirement, MsgTopLevelNorm,
                     MsgTopLevelIssue, MsgTopLevelEffect}
           /\ parser'.pos = AfterNewline(parser.tokens, parser.pos)
           /\ docChildren' = docChildren
           /\ parser'.constants = parser.constants ]_vars
  /\ [](TopFamilyParsed =>
          LET lines == input.lines
              off   == Ascending({i \in 1..Len(lines) : IsOffending(lines, i)})
              kept  == Ascending({i \in 1..Len(lines) :
                                    lines[i].kind \in {"claim", "namespace"}})
          IN  /\ Len(parser.errors) = Len(off)
              /\ \A k \in 1..Len(off) :
                   parser.errors[k].range.start = TextPosition(lines, off[k])
              /\ Len(docChildren) = Len(kept)
              /\ \A k \in 1..Len(kept) :
                   /\ docChildren[k].name = lines[kept[k]].words[1]
                   /\ docChildren[k].type
                        = IF lines[kept[k]].kind = "claim" THEN "Claim"
                          ELSE "Namespace"
                   /\ lines[kept[k]].kind = "claim" =>
                        docChildren[k].requirements = <<>>
              /\ DOMAIN parser.constants = {})

\* `%X as C` / `(r)` / `#A`: one error for each of the first two lines, no
\* constant, and the claim A
C18_Witness ==
  /\ TopFamilyParsed
  /\ Len(input.lines) = 3
  /\ input.lines[1].kind = "def"
  /\ input.lines[2].kind = "req"
  /\ input.lines[3].kind = "claim"
  /\ Len(parser.errors) = 2
  /\ parser.errors[1].message = MsgTopLevelNorm
  /\ parser.errors[2].message = MsgTopLevelRequirement
  /\ Len(docChildren) = 1
  /\ docChildren[1].name = <<"A">>
  /\ parser.constants = <<>>

(***************************************************************************)
(* Orphaned indented blocks                                                *)
(***************************************************************************)
\* INDENT tokens minus DEDENT tokens among the tokens of index from..to
Nesting(tokens, from, to) ==
  Cardinality({j \in from..to : tokens[j + 1].type = "INDENT"})
    - Cardinality({j \in from..to : tokens[j + 1].type = "DEDENT"})

\* the index of the token after the DEDENT that closes the INDENT of index
\* pos
AfterMatchingDedent(tokens, pos) ==
  LET closed == {j \in pos..(Len(tokens) - 1) : Nesting(tokens, pos, j) = 0}
  IN  (CHOOSE j \in closed : \A k \in closed : j <= k) + 1

AtOrphanedIndent ==
  /\ pc = "document"
  /\ ~isAtEnd(parser)
  /\ peek(parser).type = "INDENT"

\* a source of the family "orphan" whose lines after the indented block
\* are all at column 0
OrphanFamilyParsed ==
  /\ pc = "done"
  /\ input.family = "orphan"
  /\ \A i, j \in 1..Len(input.lines) :
       i < j /\ input.lines[i].indent = 0 => input.lines[j].indent = 0

\* C19: on an INDENT at document scope parseDocument adds exactly one error
\* and goes past the DEDENT that matches it, the INDENT/DEDENT pairs inside
\* counted; what is inside adds no child, no error and no constant, and the
\* token after that DEDENT is dispatched as any token at document scope
C19_OrphanedBlock ==
  /\ [][ AtOrphanedIndent =>
           /\ parser'.errors
                = Append(parser.errors, [ message |-> MsgOrphanIndent,
                                          range   |-> peek(parser).range ])
           /\ parser'.pos = AfterMatchingDedent(parser.tokens, parser.pos)
           /\ parser.tokens[parser'.pos].type = "DEDENT"
           /\ docChildren' = docChildren
           /\ parser'.constants = parser.constants ]_vars
  /\ [](OrphanFamilyParsed =>
          LET lines == input.lines
              after == Ascending({i \in 1..Len(lines) : lines[i].indent = 0})
          IN  /\ Len(parser.errors) = 1
              /\ parser.errors[1].message = MsgOrphanIndent
              /\ parser.errors[1].range.start
                   = [line |-> 0, column |-> 0, offset |-> 0]
              /\ DOMAIN parser.constants = {}
              /\ Len(docChildren) = Len(after)
              /\ \A k \in 1..Len(after) :
                   /\ docChildren[k].type = "Claim"
                   /\ docChildren[k].name = <<"A">>)

\* `  #B` / `    %Y as D` / `  %X as C` / `#A`: a block with a block
\* inside, skipped whole, then the claim A
C19_Witness ==
  /\ OrphanFamilyParsed
  /\ Len(input.lines) = 4
  /\ input.lines[2].indent = 4
  /\ input.lines[3].indent = 2
  /\ input.lines[4].indent = 0
  /\ CountTokens(parser.tokens, Len(parser.tokens), "INDENT") = 2
  /\ Len(parser.errors) = 1
  /\ Len(docChildren) = 1
  /\ parser.constants = <<>>

(***************************************************************************)
(* Empty and malformed sources                                             *)
(***************************************************************************)
ProductionStarts ==
  {"DOUBLE_COLON", "COMMENT", "HASH", "PLUS", "EXCLAIM", "SEMICOLON"}

\* the indices of the top-level tokens from the token of index i on: the
\* tokens of a line that starts with `(`, `%`, `?`, `>>` and of an indented
\* block belong to their first token; the list ends with the first token
\* that starts a production, or before EOF
RECURSIVE TopLevelTokens(_, _)
TopLevelTokens(tokens, i) ==
  LET type == tokens[i + 1].type
  IN  IF type = "EOF" THEN <<>>
      ELSE IF type \in ProductionStarts THEN <<i>>
      ELSE <<i>> \o
           TopLevelTokens(tokens,
             IF type = "INDENT" THEN AfterMatchingDedent(tokens, i)
             ELSE IF type \in {"LPAREN", "PERCENT", "QUESTION", "ARROW_RIGHT"}
                  THEN AfterNewline(tokens, i)
             ELSE i + 1)

\* no top-level token starts a production
FullyMalformed ==
  \A k \in 1..Len(TopLevelTokens(parser.tokens, 0)) :
    parser.tokens[TopLevelTokens(parser.tokens, 0)[k] + 1].type
      \notin ProductionStarts

\* the top-level tokens other than NEWLINE
MalformedTokens ==
  Cardinality({k \in 1..Len(TopLevelTokens(parser.tokens, 0)) :
     parser.tokens[TopLevelTokens(parser.tokens, 0)[k] + 1].type # "NEWLINE"})

\* an error is reported inside the node
HasError(node) ==
  \E e \in 1..Len(parser.errors) :
    /\ node.range.start.offset <= parser.errors[e].range.start.offset
    /\ parser.errors[e].range.start.offset <= node.range.end.offset

\* C20 as stated: an empty source gives no children and no errors; a source
\* in which no top-level token starts a well-formed production gives no
\* children and exactly one error for each malformed top-level token
C20_MalformedAsStated ==
  pc = "done" =>
    /\ source = <<>> => docChildren = <<>> /\ result[1].errors = <<>>
    /\ (\A k \in 1..Len(docChildren) : HasError(docChildren[k])) =>
         docChildren = <<>>
    /\ FullyMalformed => Len(result[1].errors) = MalformedTokens

\* C20, amended: an empty source gives no children and no errors; a source
\* in which no top-level token is `::`, a comment, `#`, `+`, `!` or `;` gives
\* no children, and its errors are those of the lexer and then exactly one
\* for each top-level token that is not a NEWLINE
C20_Malformed ==
  pc = "done" =>
    /\ source = <<>> =>
         /\ result[1].document.children = <<>>
         /\ result[1].errors = <<>>
    /\ FullyMalformed =>
         /\ result[1].document.children = <<>>
         /\ IsPrefix(lexer.errors, result[1].errors)
         /\ Len(result[1].errors) = Len(lexer.errors) + MalformedTokens

\* `)/(`: the lexer rejects `/`, parseDocument reports `)` and `(`
C20_Witness ==
  /\ pc = "done"
  /\ source = <<")", "/", "(">>
  /\ FullyMalformed
  /\ MalformedTokens = 2
  /\ Len(lexer.errors) = 1
  /\ Len(result[1].errors) = 3
  /\ result[1].document.children = <<>>

(***************************************************************************)
(* Requirements in corner brackets                                         *)
(***************************************************************************)
CornerFamilyParsed == pc = "done" /\ input.family = "corner"

\* the requirement is the one the line of a requirement block writes: its
\* name is the text between the brackets, its norm the inline `%norm`
IsRequirementOfLine(requirement, line) ==
  /\ requirement.type = "Requirement"
  /\ requirement.name = line.words[1]
  /\ IF line.kind \in {"reqJpNorm", "reqNorm"}
     THEN /\ requirement.norm # None
          /\ requirement.norm[1].content = line.words[2]
     ELSE requirement.norm = None

\* C21: in the block of a claim each line `「name」` is one Requirement of
\* the claim, its name the text between the brackets, and an inline
\* `: %norm` after it is the norm of that requirement
C21_CornerBrackets ==
  CornerFamilyParsed =>
    /\ Len(docChildren) = 1
    /\ docChildren[1].type = "Claim"
    /\ Len(docChildren[1].requirements) = Len(input.lines) - 1
    /\ \A i \in 1..Len(docChildren[1].requirements) :
         IsRequirementOfLine(docChildren[1].requirements[i],
                             input.lines[i + 1])

(***************************************************************************)
(* The effect after the block of a claim                                   *)
(***************************************************************************)
EffectFamilyParsed == pc = "done" /\ input.family = "effect"

\* the line `>>` of an input of the effect family, its last
EffectLine == input.lines[Len(input.lines)]

ShorthandParsed ==
  pc = "done" /\ input.family \in {"const", "shorthand"}

\* C23: a Requirement built from a norm (an entry `%`, `$`, `+%`, `+$`,
\* `!%`, `!$` of a block) has, in the returned tree, the content of its norm
\* as name, the conclusion of its norm as conclusion and the fact of its
\* norm as fact, also when the fact is a line `<= fact` of its sub-block
C23_NormAsRequirement ==
  ShorthandParsed =>
    \A c \in 1..Len(result[1].document.children) :
      LET claim == result[1].document.children[c]
          requirements == FlattenRequirements(claim.requirements)
      IN  /\ claim.type = "Claim"
          /\ \A k \in 1..Len(requirements) :
               /\ requirements[k].issue = None
               /\ requirements[k].norm # None
               /\ requirements[k].name = requirements[k].norm[1].content
               /\ requirements[k].concluded
                    = requirements[k].norm[1].concluded
               /\ requirements[k].fact = requirements[k].norm[1].fact

\* `#A:`, `+%X`, and in the sub-block of `+%X` the lines `<=g` and `%Z`
C23_Witness ==
  /\ ShorthandParsed
  /\ input.lines = << ClaimA,
                      Line(4, "raw", <<<<"+", "%", "X">>>>, <<>>),
                      Line(8, "raw", <<<<"<", "=", "g">>>>, <<>>),
                      Line(8, "raw", <<<<"%", "Z">>>>, <<>>) >>
  /\ Len(docChildren[1].requirements) = 1
  /\ docChildren[1].requirements[1].name = <<"X">>
  /\ docChildren[1].requirements[1].concluded = "positive"
  /\ docChildren[1].requirements[1].fact # None
  /\ docChildren[1].requirements[1].fact[1].content = <<"g">>
  /\ docChildren[1].requirements[1].norm[1].fact
       = docChildren[1].requirements[1].fact
  /\ docChildren[1].requirements[1].subRequirements # None
  /\ docChildren[1].requirements[1].subRequirements[1][1].name = <<"Z">>
  /\ result[1].errors = <<>>

(***************************************************************************)
(* Issues as requirements                                                  *)
(***************************************************************************)
IssueFamilyParsed == pc = "done" /\ input.family = "issue"

IsIssueLine(l) == l.kind \in {"issueNorm", "issueReason", "issue"}

\* the lines of the sub-block of the issue of line i: the lines after it up
\* to the next issue
RECURSIVE SubBlockOf(_, _)
SubBlockOf(lines, i) ==
  IF i + 1 > Len(lines) \/ IsIssueLine(lines[i + 1]) THEN <<>>
  ELSE <<lines[i + 1]>> \o SubBlockOf(lines, i + 1)

\* the conclusion a marker writes
ConcludedOf(marker) ==
  IF marker = <<"+">> THEN "positive"
  ELSE IF marker = <<"!">> THEN "negative" ELSE "undefined"

\* what the line of an issue writes: its question, and the content and the
\* conclusion of its norm
QuestionOf(l) == l.words[1]
NormContentOf(l) ==
  IF l.kind = "issue" THEN <<>> ELSE l.words[Len(l.words)]
NormConcludedOf(l) == IF l.kind = "issueReason" THEN "positive" ELSE "undefined"

\* C24: a Requirement built from an issue has the question of the issue as
\* name and the conclusion of the issue's norm as conclusion; its issue has
\* a norm, also when `=>` is missing, which is reported; and the entries
\* `%`, `+`, `!` of the sub-block of the issue are, in source order, the
\* subRequirements of the issue's norm, not of the issue or the requirement
C24_IssueAsRequirement ==
  IssueFamilyParsed =>
    /\ Len(result[1].document.children) = 1
    /\ LET requirements == result[1].document.children[1].requirements
           issues == Indices(input.lines, IsIssueLine)
       IN  /\ Len(requirements) = Len(issues)
           /\ \A k \in 1..Len(requirements) :
                LET requirement == requirements[k]
                    line == input.lines[issues[k]]
                    entries == SubBlockOf(input.lines, issues[k])
                IN  /\ requirement.issue # None
                    /\ requirement.issue[1].type = "Issue"
                    /\ requirement.issue[1].question = QuestionOf(line)
                    /\ requirement.name = requirement.issue[1].question
                    /\ requirement.issue[1].norm.type = "Norm"
                    /\ requirement.issue[1].norm.content = NormContentOf(line)
                    /\ requirement.issue[1].norm.concluded
                         = NormConcludedOf(line)
                    /\ requirement.concluded
                         = requirement.issue[1].norm.concluded
                    /\ requirement.subRequirements = None
                    /\ requirement.norm = None
                    /\ "subRequirements" \notin DOMAIN requirement.issue[1]
                    /\ IF entries = <<>>
                       THEN requirement.issue[1].norm.subRequirements = None
                       ELSE /\ requirement.issue[1].norm.subRequirements # None
                            /\ Len(requirement.issue[1].norm.subRequirements[1])
                                 = Len(entries)
                            /\ \A e \in 1..Len(entries) :
                                 LET sub == requirement.issue[1].norm
                                              .subRequirements[1][e]
                                 IN  /\ sub.type = "Requirement"
                                     /\ sub.name = entries[e].words[2]
                                     /\ sub.concluded
                                          = ConcludedOf(entries[e].words[1])
                    /\ (line.kind = "issue") <=>
                         \E e \in 1..Len(result[1].errors) :
                           /\ result[1].errors[e].message = MsgIssueNeedsImplies
                           /\ result[1].errors[e].range.start.line
                                = issues[k] - 1

\* `#A:`, the issue `?o` without `=>`, and `+%W`, `%Z` in its sub-block
C24_Witness ==
  /\ IssueFamilyParsed
  /\ input.lines = << ClaimA, Line(4, "issue", <<<<"o">>>>, <<>>),
                      Line(8, "norm", <<<<"+">>, <<"W">>>>, <<>>),
                      Line(8, "norm", <<<<>>, <<"Z">>>>, <<>>) >>
  /\ Len(docChildren[1].requirements) = 1
  /\ docChildren[1].requirements[1].name = <<"o">>
  /\ Len(docChildren[1].requirements[1].issue[1].norm.subRequirements[1]) = 2
  /\ docChildren[1].requirements[1].issue[1].norm.subRequirements[1][1].name
       = <<"W">>
  /\ docChildren[1].requirements[1].issue[1].norm.subRequirements[1][2].name
       = <<"Z">>
  /\ \E e \in 1..Len(result[1].errors) :
       result[1].errors[e].message = MsgIssueNeedsImplies

(***************************************************************************)
(* Chains of reasons                                                       *)
(***************************************************************************)
ReasonsFamilyParsed == pc = "done" /\ input.family = "reasons"

\* the line of the issue of an input of the reasons family
ChainLine == input.lines[2]

\* C25: for an issue with the chain `~> (r1 op1 r2 ... op_n r_{n+1})`, each
\* op `&` or `|`, parseReasons returns n+1 reasons in source order with the
\* contents r1 ... r_{n+1}, every reason after the first with the operator
\* before it, and consumes the closing `)` without an error
C25_ReasonChain ==
  ReasonsFamilyParsed =>
    /\ result[1].errors = <<>>
    /\ Len(docChildren) = 1
    /\ Len(docChildren[1].requirements) = 1
    /\ docChildren[1].requirements[1].issue # None
    /\ LET issue == docChildren[1].requirements[1].issue[1]
       IN  /\ issue.reasons # None
           /\ Len(issue.reasons[1]) = Len(ChainLine.words)
           /\ \A i \in 1..Len(issue.reasons[1]) :
                /\ issue.reasons[1][i].type = "Reason"
                /\ issue.reasons[1][i].content = ChainLine.words[i]
                /\ issue.reasons[1][i].operator
                     = IF i = 1 THEN "undefined"
                       ELSE OperatorKind(ChainLine.ops[i - 1])
           /\ issue.norm.content = <<"N">>

(***************************************************************************)
(* Definitions of constants with a reference or a fact                     *)
(***************************************************************************)
DefineFamilyParsed == pc = "done" /\ input.family = "define"

\* the line that defines the constant, and the norms of the definition and
\* of the use `$C` after it
DefineLine == input.lines[2]
DefinedNorm == docChildren[1].requirements[1].norm[1]
ReferringNorm == docChildren[1].requirements[2].norm[1]

\* C carries, in the map of constants, the content X and the citation R
RegisteredWithReference(constants, name, content, citation) ==
  /\ name \in DOMAIN constants
  /\ constants[name].value.content = content
  /\ constants[name].value.reference # None
  /\ constants[name].value.reference[1].citation = citation

\* C26: `%X ^R as C` registers C with a snapshot of content X and citation
\* R, and a later `$C` yields a Norm with content X and citation R
C26_ReferenceBeforeAs ==
  DefineFamilyParsed /\ DefineLine.kind = "defReference" =>
    /\ Len(docChildren) = 1
    /\ Len(docChildren[1].requirements) = 2
    /\ RegisteredWithReference(result[1].document.constants,
                               DefineLine.words[3], DefineLine.words[1],
                               DefineLine.words[2])
    /\ ReferringNorm.content = DefineLine.words[1]
    /\ ReferringNorm.reference # None
    /\ ReferringNorm.reference[1].citation = DefineLine.words[2]
    /\ ReferringNorm.constantReference = Some(DefineLine.words[3])

\* the fact is the flat fact with the text `content`
IsFlatFact(fact, content) ==
  /\ fact # None
  /\ fact[1].type = "Fact"
  /\ fact[1].content = content
  /\ fact[1].children = None

\* C27: the optional parts of a norm are accepted in the order `<= fact`,
\* `as name`: `%X <= F as C`, F a flat fact, yields a Norm with the fact F
\* and the constantDefinition C and registers C, as `%X as C <= F` does
C27_FactBeforeAs ==
  DefineFamilyParsed /\ DefineLine.kind \in {"defFact", "factDef"} =>
    /\ Len(docChildren) = 1
    /\ Len(docChildren[1].requirements) = 2
    /\ DefinedNorm.content = DefineLine.words[1]
    /\ IsFlatFact(DefinedNorm.fact, DefineLine.words[2])
    /\ DefinedNorm.constantDefinition = Some(DefineLine.words[3])
    /\ DOMAIN result[1].document.constants = {DefineLine.words[3]}
    /\ result[1].document.constants[DefineLine.words[3]].value.content
         = DefineLine.words[1]
    /\ ReferringNorm.content = DefineLine.words[1]
    /\ result[1].errors = <<>>

(***************************************************************************)
(* Debouncing of the notifications of the file system                      *)
(***************************************************************************)
\* the notifications of .yaml and .yml files that reached a watcher
IsYamlChange(e) ==
  /\ e.watchers > 0
  /\ e.filename \in {Some(Yaml), Some(Yml)}
YamlChanges == SelectSeq(watcher.events, IsYamlChange)

\* the bursts of a sequence of notifications: a notification less than
\* DelayMs after the one before it belongs to the burst of that one, and
\* one more than DelayMs after it starts a burst; one that comes as the
\* delay ends is of the same burst when `joins` and starts one otherwise
Bursts(events, joins) ==
  Cardinality({i \in 1..Len(events) :
                 \/ i = 1
                 \/ events[i].time - events[i - 1].time > DelayMs
                 \/ /\ ~joins
                    /\ events[i].time - events[i - 1].time = DelayMs})

\* the calls of onChange made by the timers
IsTimerCall(c) == c.by = "timer"
TimerCalls == SelectSeq(watcher.onChange, IsTimerCall)

\* C28: the notifications of .yaml and .yml files are debounced: when
\* several arrive within the delay of 100 ms the database is reloaded and
\* onChange called once for the burst; with no timer pending, onChange has
\* been called once for every burst
C28_Debounce ==
  watcher.timers = <<>> =>
    /\ Bursts(YamlChanges, TRUE) <= Len(TimerCalls)
    /\ Len(TimerCalls) <= Bursts(YamlChanges, FALSE)

(***************************************************************************)
(* The indent stack                                                        *)
(***************************************************************************)
\* C29: in every state of the lexer the indent stack is not empty, its
\* bottom element is 0, and it is strictly increasing from bottom to top
C29_IndentStack ==
  /\ lexer.indentStack # <<>>
  /\ lexer.indentStack[1] = 0
  /\ \A i \in 1..(Len(lexer.indentStack) - 1) :
       lexer.indentStack[i] < lexer.indentStack[i + 1]

\* ` a` / `<tab>a` / ` a`: the stack [0, 1, 4] and then, after the third
\* line popped the level 4, [0, 1]
C29_Witness ==
  /\ pc = "tokenize"
  /\ source = <<SP, "a", NL, TAB, "a", NL, SP, "a">>
  /\ lexer.indentStack = <<0, 1>>
  /\ CountTokens(lexer.tokens, Len(lexer.tokens), "INDENT") = 2
  /\ CountTokens(lexer.tokens, Len(lexer.tokens), "DEDENT") = 1

(***************************************************************************)
(* The top of the indent stack and the width of the line                   *)
(***************************************************************************)
\* line i of an input of the indent family: the width of its indentation
\* and whether something other than a newline follows the indentation
TextOfLine(i) == input.lines[i].words[1]
WidthOfLine(i) == WidthOf(SubSeq(TextOfLine(i), 1, IndentEnd(TextOfLine(i), 0)))
NonBlankLine(i) == IndentEnd(TextOfLine(i), 0) < Len(TextOfLine(i))

\* the non-blank line before line i, 0 when there is none
PreviousNonBlank(i) ==
  IF \E j \in 1..(i - 1) : NonBlankLine(j)
  THEN Max({j \in 1..(i - 1) : NonBlankLine(j)}) ELSE 0

\* the INDENT and DEDENT tokens that the start of line i gave
IndentTokensAt(i) ==
  {n \in 1..Len(lexer.tokens) :
     /\ lexer.tokens[n].type \in {"INDENT", "DEDENT"}
     /\ lexer.tokens[n].range.start.line = i - 1
     /\ lexer.tokens[n].range.start.column = 0}

\* the indent stack after the non-blank lines up to line i: a width above
\* the top is pushed, a width below it pops the levels above it
RECURSIVE StackAfter(_)
StackAfter(i) ==
  IF i = 0 THEN <<0>>
  ELSE IF ~NonBlankLine(i) THEN StackAfter(i - 1)
  ELSE IF WidthOfLine(i) > Top(StackAfter(i - 1))
       THEN Append(StackAfter(i - 1), WidthOfLine(i))
  ELSE PopWhile(StackAfter(i - 1), WidthOfLine(i))

IndentFamilyLexed == pc # "tokenize" /\ input.family = "indent"

\* C30 as stated: after the indentation of a non-blank line is handled the
\* top of the indent stack is the width of that line, and two consecutive
\* non-blank lines of the same width have no INDENT and no DEDENT between
\* them
C30_TopIsWidthAsStated ==
  /\ [][AtLineStart /\ ~BlankLine => Top(lexer'.indentStack) = LineWidth]_vars
  /\ [](IndentFamilyLexed =>
          \A i \in 2..Len(input.lines) :
            /\ NonBlankLine(i)
            /\ PreviousNonBlank(i) # 0
            /\ WidthOfLine(PreviousNonBlank(i)) = WidthOfLine(i)
            => IndentTokensAt(i) = {})

\* C30, amended: after the indentation of a non-blank line is handled the
\* top of the indent stack is the width of that line when the width is
\* above the old top or is a level of the stack, and otherwise, after a
\* dedent to a width that is no level of the stack, the greatest level
\* below the width; two consecutive non-blank lines of the same width have
\* no INDENT and no DEDENT between them unless the first dedented to such a
\* width, and then they have one INDENT between them
C30_TopIsWidth ==
  /\ [][AtLineStart /\ ~BlankLine =>
          LET stack == lexer.indentStack
              levels == {stack[k] : k \in 1..Len(stack)}
          IN  Top(lexer'.indentStack) =
                IF LineWidth > Top(stack) \/ LineWidth \in levels
                THEN LineWidth
                ELSE Max({l \in levels : l < LineWidth})]_vars
  /\ [](IndentFamilyLexed =>
          \A i \in 2..Len(input.lines) :
            /\ NonBlankLine(i)
            /\ PreviousNonBlank(i) # 0
            /\ WidthOfLine(PreviousNonBlank(i)) = WidthOfLine(i)
            => IF Top(StackAfter(PreviousNonBlank(i))) = WidthOfLine(i)
               THEN IndentTokensAt(i) = {}
               ELSE /\ Cardinality(IndentTokensAt(i)) = 1
                    /\ \A n \in IndentTokensAt(i) :
                         lexer.tokens[n].type = "INDENT")

\* ` a` / `<tab>a` / `  a`: the third line pops the level 4 and leaves the
\* top 1 below its width 2
C30_Witness ==
  /\ pc = "tokenize"
  /\ source = <<SP, "a", NL, TAB, "a", NL, SP, SP, "a">>
  /\ lexer.pos = 8
  /\ lexer.indentStack = <<0, 1>>
  /\ lexer.tokens[Len(lexer.tokens)].type = "DEDENT"

====
